---- MODULE Spec2Model ----
(***************************************************************************)
(* Position lifecycle engine of the trading bot: the Position Store        *)
(* (position_manager.py), the TP/SL planner and breakeven move             *)
(* (tp_sl_manager.py), the order-status reconciler and the orchestrator    *)
(* (trading_executor.py) and the price-driven Stop-Loss Monitor            *)
(* (stop_loss_monitor.py).                                                 *)
(*                                                                         *)
(* The three workers are Python threads that share the store's dict and    *)
(* the position dicts it holds; the store has no lock.  Every action below *)
(* is one stretch of a worker's code between two points where another      *)
(* thread can run (a Gateway call, or a store access that a later line     *)
(* depends on).  Position dicts are heap objects: the store maps the       *)
(* symbol to an object, and a worker keeps using the object it fetched     *)
(* even after the store maps the symbol to another one.  A dict that the    *)
(* store and every worker have let go of is freed (its slot reads Blank).  *)
(*                                                                         *)
(* One symbol is followed.  Prices are integers, quantities are integers   *)
(* in a unit that makes every percentage of the ladder exact; None is 0    *)
(* for a price (Python treats both as false in `if position.get(...)`).    *)
(***************************************************************************)
EXTENDS Integers, FiniteSets, Sequences, TLC

\* ---------------------------------------------------------------- bounds
\* Cycles of a background loop followed over several symbols, and calls that raise.
MaxCycles == 2
MaxRaises == 2
\* Positions created in one run (position dicts allocated).
MaxPositions == 2
\* Gateway calls that fail (raise, or answer without an order reference) in one run.
MaxFaults == 1
\* Forced-liquidation orders counted per position (the counter saturates here).
MaxLiq == 2
\* Entries filled in one run of Spec, where the three workers all run.
MaxEntries == 1

\* ------------------------------------------------------- program constants
\* STOP_LOSS_PERCENT default, and the percentage stop_loss_monitor.py falls back to.
StopLossPercent == 5

Rungs == 1..5
Sides == {"BUY", "SELL"}
Exchanges == {"mexc", "alpaca"}
\* Entry fills fed to the orchestrator: executed quantity and average fill price.
Quantities == {1600}
EntryPrices == {100}
\* Ticker prices the Gateway may answer: each stop level (95 and 105 at 5%, the entry
\* after the breakeven move) and the tick next to the initial stops on the safe side.
Prices == {95, 96, 100, 104, 105}
\* None, for a price and for an object reference.
NoPrice == 0
NoPosition == 0

Objects == 1..MaxPositions

\* TPSLManager.TP_CONFIG: percent from entry (in tenths of a percent) and close percent.
TP_CONFIG == [k \in Rungs |->
    CASE k = 1 -> [percent10 |-> 10, close_percent |-> 10]
      [] k = 2 -> [percent10 |-> 20, close_percent |-> 15]
      [] k = 3 -> [percent10 |-> 50, close_percent |-> 35]
      [] k = 4 -> [percent10 |-> 65, close_percent |-> 35]
      [] k = 5 -> [percent10 |-> 80, close_percent |-> 50]]

\* ------------------------------------------------------------ the planner
\* calculate_tp_price: entry * (1 + percent/100) for BUY, entry * (1 - percent/100)
\* for SELL, with the rung's percent from TP_CONFIG.
calculate_tp_price(entry_price, tp_level, side) ==
    IF side = "BUY" THEN (entry_price * (1000 + TP_CONFIG[tp_level].percent10)) \div 1000
                    ELSE (entry_price * (1000 - TP_CONFIG[tp_level].percent10)) \div 1000

\* A stop placed on the take-profit side of the entry.
calculate_sl_price_tp_sign(entry_price, side) ==
    IF side = "BUY" THEN (entry_price * (100 + StopLossPercent)) \div 100
                    ELSE (entry_price * (100 - StopLossPercent)) \div 100

\* calculate_sl_price: entry * (1 - sl/100) for BUY, entry * (1 + sl/100) for SELL.
calculate_sl_price(entry_price, side) ==
    IF side = "BUY" THEN (entry_price * (100 - StopLossPercent)) \div 100
                    ELSE (entry_price * (100 + StopLossPercent)) \div 100

\* Every rung closing its percentage of what remains.
calculate_close_quantity_of_remaining(initial_quantity, tp_level, remaining_quantity) ==
    (remaining_quantity * TP_CONFIG[tp_level].close_percent) \div 100

\* calculate_close_quantity: tp5 closes half of what remains, tp1..tp4 a percentage
\* of the initial quantity.
calculate_close_quantity(initial_quantity, tp_level, remaining_quantity) ==
    IF tp_level = 5 THEN (remaining_quantity * 5) \div 10
                    ELSE (initial_quantity * TP_CONFIG[tp_level].close_percent) \div 100

\* The quantity of the limit order place_take_profit_orders places for a rung.
placed_quantity(initial_quantity, tp_level) ==
    IF tp_level = 5 THEN (((initial_quantity * 5) \div 100) * 5) \div 10
                    ELSE calculate_close_quantity(initial_quantity, tp_level, initial_quantity)

\* ------------------------------------------------------------------ state
VARIABLES
    exchange_name,      \* the venue behind the Gateway: fixes the response shape
    heap,               \* position dicts, by object
    allocated,          \* number of position dicts created so far
    active_positions,   \* PositionManager.active_positions[symbol]: an object, or NoPosition
    fill_level,         \* venue: per position, its placed rungs up to this one are FILLED
    faults,             \* Gateway failures so far
    opc, oref,          \* orchestrator: position in execute_buy, the position it created
    oside, oqty, oprice,\*   the side, executed quantity and fill price of the entry in hand
    rpc, rref, rrung,   \* reconciler: position, the position it holds, rung in hand
    tp1_error,          \*   "CRITICAL ERROR in TP1 handling" was logged in this cycle
    mpc, mref, mprice,  \* Stop-Loss Monitor: position, snapshot's position, fetched price
    liq_count,          \* forced-liquidation orders sent and accepted, per position
    last_liq,           \* the last forced-liquidation order sent to the Gateway
    loop,               \* a background loop over several symbols: which loop it is
    snapshot, todo,     \*   its cycle's snapshot (symbols in dict order), the symbols to come
    lpc, lrung,         \*   its position in the loop body, the rung in hand
    handled, raised,    \*   symbols whose calls were all made / had a call raise, this cycle
    cycles, alive,      \*   cycles completed, whether the thread still runs
    move_calls,         \* calls of move_stop_loss_to_entry made on one open position
    move_result,        \*   and what the last one returned
    config,             \* the executor's sizing configuration
    payload,            \* webhook: the inbound payload, as received
    signal_data,        \*   the signal parsed from it
    wpc, gate,          \*   position in the handler, what validate_signal answered
    gateway_calls,      \*   the Gateway calls made for this signal
    position_size,      \*   the order notional calculate_position_size returned
    free_balance,       \*   the free quote balance the balance lookup answered
    result,             \*   what execute_signal returned
    audit,              \* SignalMonitor.signals, the audit log
    executor,           \* webhook: what _get_or_create_executor finds
    ack,                \*   the acknowledgments returned for the request
    gates_raised,       \*   the Gateway calls that raised while the signal was handled
    ticker_price,       \*   the pre-trade price get_ticker_price answered
    filled_order,       \*   the status response polled for the entry order
    sell_available,     \*   execute_sell: the holdings the venue reported
    sell_orders,        \*   the quantities of the market sells sent
    now,                \* SignalMonitor: the clock (time.time())
    added,              \*   add_signal calls made so far
    total_signals,      \*   SignalMonitor.total_signals
    returned,           \*   what the last get_recent_signals returned
    last_call,          \*   the call made last, "none" once time has passed
    monitoring_active,  \* the loop followed: its monitoring_active flag
    shutdown,           \*   whether the owning process has asked it to stop
    planner_call,       \* the planner function called last, "none" before any call
    planner_args,       \*   the arguments the calls are made with
    planner_result,     \*   the value the call returned
    planner_error,      \*   whether the call raised instead of returning
    handler_executor,   \* WebhookHandler.executor: the cached executor, NoExecutor for None
    executors_built,    \*   TradingExecutor instances constructed so far
    req_pc,             \*   per request, its position in _get_or_create_executor
    req_executor,       \*   per request, the executor in hand (constructed or returned)
    monitor_thread,     \* StopLossMonitor.monitor_thread: "None", or the thread's state
    mt_pc,              \*   where the thread is in _monitor_loop
    monitor_calls,      \*   the start_monitoring / stop_monitoring calls made, in order
    calls_over          \*   whether the caller has made its last call

objVars   == <<heap, fill_level, liq_count>>
loopVars  == <<loop, snapshot, todo, lpc, lrung, handled, raised, cycles, alive>>
moveVars  == <<move_calls, move_result>>
signalVars == <<config, payload, signal_data, wpc, gate, gateway_calls, position_size,
                free_balance,
                result, audit, executor, ack, gates_raised, ticker_price, filled_order,
                sell_available, sell_orders>>
logVars   == <<now, added, total_signals, returned, last_call>>
shutdownVars == <<monitoring_active, shutdown>>
plannerVars == <<planner_call, planner_args, planner_result, planner_error>>
createVars == <<handler_executor, executors_built, req_pc, req_executor>>
restartVars == <<monitor_thread, mt_pc, monitor_calls, calls_over>>
extraVars == <<plannerVars, createVars, restartVars>>
sideVars  == <<loopVars, moveVars, signalVars, logVars, shutdownVars, extraVars>>
envVars   == <<exchange_name, allocated, faults, sideVars>>
orchVars  == <<opc, oref, oside, oqty, oprice>>
reconVars == <<rpc, rref, rrung, tp1_error>>
monVars   == <<mpc, mref, mprice, last_liq>>
vars == <<objVars, envVars, active_positions, orchVars, reconVars, monVars>>

\* A slot of the heap that holds no position dict yet.
Blank == [side |-> "BUY", entry_price |-> NoPrice, initial_quantity |-> 0,
          remaining_quantity |-> 0, stop_loss_order_id |-> "None",
          stop_loss_price |-> NoPrice, tp_orders |-> {}, tp_hit |-> {},
          stop_loss_moved_to_entry |-> FALSE]

NoLiq == [position |-> NoPosition, side |-> "None", quantity |-> 0, notional |-> 0,
          accepted |-> FALSE]
NoOrders == [sent |-> 0, accepted |-> 0]

\* The components as TradingExecutor.__init__ wires them: one store shared by the
\* planner, the reconciler thread and the Stop-Loss Monitor thread, nothing stored.
\* (As written, line 45 passes PositionManager two arguments while its __init__ takes
\* one; the components are modelled as wired, with the store constructed.)
InitCore ==
    /\ exchange_name \in Exchanges
    /\ heap = [o \in Objects |-> Blank]
    /\ allocated = 0
    /\ active_positions = NoPosition
    /\ fill_level = [o \in Objects |-> 0]
    /\ faults = 0
    /\ opc = "idle" /\ oref = NoPosition
    /\ oside = "BUY" /\ oqty = 0 /\ oprice = NoPrice
    /\ rpc = "idle" /\ rref = NoPosition /\ rrung = 0 /\ tp1_error = FALSE
    /\ mpc = "idle" /\ mref = NoPosition /\ mprice = NoPrice
    /\ liq_count = [o \in Objects |-> NoOrders]
    /\ last_liq = NoLiq

\* No loop over several symbols is followed.
LoopIdle ==
    /\ loop = "none" /\ snapshot = <<>> /\ todo = <<>>
    /\ lpc = "sleep" /\ lrung = 0
    /\ handled = {} /\ raised = {}
    /\ cycles = 0 /\ alive = TRUE

\* move_stop_loss_to_entry has not been called from outside the reconciler.
MoveIdle == move_calls = 0 /\ move_result = "none"

\* A value a dict has no key for.
Absent == "<absent>"

NoPayload == [content |-> "json", symbol |-> Absent, signal |-> Absent, strategy |-> Absent,
              ticker |-> Absent, SYMBOL |-> Absent, SIGNAL |-> Absent, TIME |-> Absent]
NoSignal == [keys |-> {}, symbol |-> "", signal |-> "", strategy |-> Absent]
NoConfig == [USE_PERCENTAGE |-> TRUE, POSITION_SIZE_PERCENT |-> 20,
             POSITION_SIZE_FIXED |-> 0]

\* No status response has been polled.
NoResponse == [keys |-> {}, status |-> "", price |-> 0, executedQty |-> 0,
               cummulativeQuoteQty |-> 0, filled_qty |-> 0, filled_avg_price |-> 0,
               qty |-> 0, notional |-> 0]

\* The request has made no Gateway call and has not been answered.
RequestFresh ==
    /\ signal_data = NoSignal
    /\ gate = "pending"
    /\ gateway_calls = {} /\ position_size = 0 /\ free_balance = 0
    /\ result = "pending"
    /\ ack = <<>> /\ gates_raised = {}
    /\ ticker_price = NoPrice /\ filled_order = NoResponse
    /\ sell_available = 0 /\ sell_orders = <<>>

\* SignalMonitor.__init__: nothing recorded.
LogEmpty ==
    /\ audit = <<>>
    /\ now = 0 /\ added = 0 /\ total_signals = 0
    /\ returned = <<>> /\ last_call = "none"

\* No webhook request is followed.
SignalIdle ==
    /\ config = NoConfig
    /\ payload = NoPayload
    /\ executor = "configured"
    /\ wpc = "none"
    /\ RequestFresh
    /\ LogEmpty

\* The flag as the constructors set it, no shutdown asked for.
ShutdownIdle == monitoring_active = TRUE /\ shutdown = FALSE

\* Arguments of a planner call that is not followed.
NoArgs == [entry_price |-> NoPrice, side |-> "BUY", tp_level |-> 1,
           initial_quantity |-> 0, remaining_quantity |-> 0]

\* No planner call is followed.
PlannerIdle ==
    /\ planner_call = "none" /\ planner_args = NoArgs
    /\ planner_result = 0 /\ planner_error = FALSE

\* Concurrent requests that find no executor: how many are followed.
MaxRequests == 3
Requests == 1..MaxRequests

\* None, for an executor.
NoExecutor == 0

\* No request is in _get_or_create_executor; the handler was given its executor.
CreateIdle ==
    /\ handler_executor = NoExecutor /\ executors_built = 0
    /\ req_pc = [r \in Requests |-> "done"]
    /\ req_executor = [r \in Requests |-> NoExecutor]

\* No start_monitoring / stop_monitoring call is followed.
RestartIdle ==
    /\ monitor_thread = "None" /\ mt_pc = "while"
    /\ monitor_calls = <<>> /\ calls_over = FALSE

ExtraIdle == PlannerIdle /\ CreateIdle /\ RestartIdle

Init == InitCore /\ LoopIdle /\ MoveIdle /\ SignalIdle /\ ShutdownIdle /\ ExtraIdle

\* The dicts still referenced once a step is over: by the store or by a worker.
LiveAfter == {active_positions', oref', rref', mref'} \ {NoPosition}

\* The heap after a step that lets go of a reference: a dict nobody holds is freed,
\* and with it the references to its orders.
Release(h) ==
    /\ heap' = [o \in Objects |-> IF o \in LiveAfter THEN h[o] ELSE Blank]
    /\ fill_level' = [o \in Objects |-> IF o \in LiveAfter THEN fill_level[o] ELSE 0]
    /\ liq_count' = [o \in Objects |-> IF o \in LiveAfter THEN liq_count[o] ELSE NoOrders]

\* The slot a new dict takes.
FreeSlot == CHOOSE o \in Objects :
               /\ o \notin {active_positions, oref, rref, mref}
               /\ \A f \in Objects : f \notin {active_positions, oref, rref, mref} => o <= f

\* ------------------------------------------------------- the Position Store
\* A record created with nothing left to close.
create_position_closed(entry_price, side, quantity) ==
    [side |-> side, entry_price |-> entry_price, initial_quantity |-> quantity,
     remaining_quantity |-> 0, stop_loss_order_id |-> "None",
     stop_loss_price |-> NoPrice, tp_orders |-> {}, tp_hit |-> {},
     stop_loss_moved_to_entry |-> FALSE]

\* create_position: a fresh dict, stored under the symbol over whatever was there.
create_position(entry_price, side, quantity) ==
    [side |-> side, entry_price |-> entry_price, initial_quantity |-> quantity,
     remaining_quantity |-> quantity, stop_loss_order_id |-> "None",
     stop_loss_price |-> NoPrice, tp_orders |-> {}, tp_hit |-> {},
     stop_loss_moved_to_entry |-> FALSE]

\* update_position_quantity: subtract from the position now stored under the symbol.
update_position_quantity(h, closed_quantity) ==
    IF active_positions = NoPosition THEN h
    ELSE [h EXCEPT ![active_positions].remaining_quantity = @ - closed_quantity]

\* mark_tp_hit: set the rung's flag on the position now stored under the symbol.
mark_tp_hit(h, tp_level) ==
    IF active_positions = NoPosition THEN h
    ELSE [h EXCEPT ![active_positions].tp_hit = @ \cup {tp_level}]

\* mark_stop_loss_moved: set the flag on the position now stored under the symbol.
mark_stop_loss_moved(h) ==
    IF active_positions = NoPosition THEN h
    ELSE [h EXCEPT ![active_positions].stop_loss_moved_to_entry = TRUE]

\* close_position(symbol): del self.active_positions[symbol], whatever it holds.
close_position == NoPosition

\* ------------------------------------------------------------- the Gateway
\* get_order_status answers FILLED for a rung's order once the venue has filled it.
\* tp1 is compared as returned (== 'FILLED'), the other rungs after upper().
OrderFilled(o, tp_level) ==
    /\ tp_level \in heap[o].tp_orders
    /\ tp_level <= fill_level[o]

\* Whether `'orderId' in response` holds for an order the venue accepted:
\* MEXC answers {orderId, ...}, Alpaca answers {id, ...}.
HasOrderId == exchange_name = "mexc"

\* place_order(symbol=, side=, order_type=, quantity=, price=) of the venue's client:
\* AlpacaClient.place_order has no `price` parameter, so the call raises TypeError.
LimitOrderAccepted == exchange_name = "mexc"

\* ---------------------------------------------------------- the orchestrator
\* execute_buy up to the entry fill (the price, the size, the market buy and its
\* status poll): an entry that filled leaves the executed quantity and the average
\* fill price in hand.  An entry that fails returns without touching the store.
ExecuteBuy_Entry ==
    /\ opc = "idle"
    /\ allocated < MaxPositions
    /\ \E q \in Quantities, p \in EntryPrices :
          /\ oqty' = q
          /\ oprice' = p
    /\ oside' = "BUY"
    /\ opc' = "create"
    /\ UNCHANGED <<oref, objVars, envVars, active_positions, reconVars, monVars>>

\* execute_buy always passes side='BUY'.  create_position, place_initial_stop_loss
\* and place_take_profit_orders take the side as a parameter: a short position is the
\* same three calls made with side='SELL'.
OpenShort_Entry ==
    /\ opc = "idle"
    /\ allocated < MaxPositions
    /\ \E q \in Quantities, p \in EntryPrices :
          /\ oqty' = q
          /\ oprice' = p
    /\ oside' = "SELL"
    /\ opc' = "create"
    /\ UNCHANGED <<oref, objVars, envVars, active_positions, reconVars, monVars>>

\* position_manager.create_position(symbol, entry_price, side, executed_qty, order_id)
ExecuteBuy_CreatePosition ==
    /\ opc = "create"
    /\ active_positions' = FreeSlot
    /\ oref' = FreeSlot
    /\ allocated' = allocated + 1
    /\ opc' = "stop_loss"
    /\ UNCHANGED <<oside, oqty, oprice, exchange_name, sideVars, faults, reconVars, monVars>>
    /\ Release([heap EXCEPT ![FreeSlot] = create_position(oprice, oside, oqty)])

\* place_initial_stop_loss: the price goes on the position now stored under the
\* symbol (if any); the marker it returns goes on the position execute_buy created.
place_initial_stop_loss(h, entry_price, side) ==
    IF active_positions = NoPosition THEN h
    ELSE [h EXCEPT ![active_positions].stop_loss_price = calculate_sl_price(entry_price, side),
                   ![active_positions].stop_loss_order_id = "MONITORED"]

ExecuteBuy_InitialStopLoss ==
    /\ opc = "stop_loss"
    /\ heap' = [place_initial_stop_loss(heap, oprice, oside)
                    EXCEPT ![oref].stop_loss_order_id = "MONITORED"]
    /\ opc' = "take_profit"
    /\ UNCHANGED <<oref, oside, oqty, oprice>>
    /\ UNCHANGED <<fill_level, liq_count, envVars, active_positions, reconVars, monVars>>

\* execute_buy returns.
OrchestratorReturns ==
    /\ opc' = "idle"
    /\ oref' = NoPosition
    /\ oqty' = 0
    /\ oprice' = NoPrice
    /\ oside' = "BUY"

\* place_take_profit_orders: position = get_position(symbol); without a position it
\* returns no orders.
PlaceTakeProfitOrders_NoPosition ==
    /\ opc = "take_profit"
    /\ active_positions = NoPosition
    /\ OrchestratorReturns
    /\ UNCHANGED <<envVars, active_positions, reconVars, monVars>>
    /\ Release(heap)

\* place_take_profit_orders, the loop over tp1..tp5: each rung's limit order is placed
\* with placed_quantity and its reference recorded on the position; a rung whose
\* place_order raises or answers without an orderId is logged and skipped.  A rung
\* not placed yet reads to the other workers as a rung whose order still rests (both
\* `continue` in the reconciler), so the five placements are one step.
PlaceTakeProfitOrders_Placed ==
    /\ opc = "take_profit"
    /\ active_positions # NoPosition
    /\ LimitOrderAccepted
    /\ OrchestratorReturns
    /\ UNCHANGED <<envVars, active_positions, reconVars, monVars>>
    /\ Release([heap EXCEPT ![active_positions].tp_orders = Rungs])

\* Every rung's place_order raises (the venue's client takes no `price` argument):
\* no order is placed and none is recorded.
PlaceTakeProfitOrders_Rejected ==
    /\ opc = "take_profit"
    /\ active_positions # NoPosition
    /\ ~LimitOrderAccepted
    /\ OrchestratorReturns
    /\ UNCHANGED <<envVars, active_positions, reconVars, monVars>>
    /\ Release(heap)

\* What execute_buy does once the entry has filled.
LadderSetup ==
    \/ ExecuteBuy_CreatePosition
    \/ ExecuteBuy_InitialStopLoss
    \/ PlaceTakeProfitOrders_NoPosition
    \/ PlaceTakeProfitOrders_Placed
    \/ PlaceTakeProfitOrders_Rejected

\* The entries of a run in which all three workers run.
ExecuteBuy_EntryFlat ==
    /\ allocated < MaxEntries
    /\ ExecuteBuy_Entry

OpenShort_EntryFlat ==
    /\ allocated < MaxEntries
    /\ OpenShort_Entry

\* ------------------------------------------------------------------ the venue
\* The venue fills the next resting limit order of a position's ladder.  The rungs
\* are limit orders at rising (BUY entry) or falling (SELL entry) prices, so they
\* fill in rung order.
NextResting(o) == {k \in heap[o].tp_orders : k > fill_level[o]}

VenueFill ==
    /\ \E o \in Objects :
          /\ NextResting(o) # {}
          /\ fill_level' = [fill_level EXCEPT ![o] =
                               CHOOSE k \in NextResting(o) : \A j \in NextResting(o) : k <= j]
    /\ UNCHANGED <<heap, liq_count, envVars, active_positions, orchVars, reconVars, monVars>>

\* -------------------------------------------------------------- the reconciler
\* The cycle of _monitor_positions is over (time.sleep(5) is next).
ReconcilerCycleEnds ==
    /\ rpc' = "idle"
    /\ rref' = NoPosition
    /\ rrung' = 0
    /\ tp1_error' = FALSE

\* check_and_handle_tp1 is over (it returned, or its exception was logged by
\* _monitor_positions): _check_tp_levels(symbol) is next.
ReconcilerToLevels ==
    /\ rpc' = "levels_get"
    /\ rref' = NoPosition
    /\ rrung' = 0

\* _monitor_positions: positions = get_all_positions(), and for the symbol's position
\* `if not position['tp_hit']['tp1']`.  The copy is of the dict, not of the position.
MonitorPositions_Snapshot ==
    /\ rpc = "idle"
    /\ active_positions # NoPosition
    /\ IF 1 \in heap[active_positions].tp_hit
          THEN ReconcilerToLevels /\ UNCHANGED tp1_error
          ELSE /\ rpc' = "tp1_get"
               /\ UNCHANGED <<rref, rrung, tp1_error>>
    /\ UNCHANGED <<objVars, envVars, active_positions, orchVars, monVars>>

\* order_status.get('status') == 'FILLED': compared as returned, and Alpaca answers
\* 'filled'.
Tp1Filled(o) == OrderFilled(o, 1) /\ exchange_name = "mexc"

\* check_and_handle_tp1 up to the status of the tp1 order: no position, tp1 already
\* hit, no tp1 order, or an order that is not FILLED, and it returns.
CheckAndHandleTp1_Return ==
    /\ rpc = "tp1_get"
    /\ \/ active_positions = NoPosition
       \/ /\ active_positions # NoPosition
          /\ ~Tp1Filled(active_positions) \/ 1 \in heap[active_positions].tp_hit
    /\ ReconcilerToLevels
    /\ UNCHANGED tp1_error
    /\ UNCHANGED <<objVars, envVars, active_positions, orchVars, monVars>>

\* get_order_status raises: check_and_handle_tp1 re-raises, _monitor_positions logs.
CheckAndHandleTp1_QueryFails ==
    /\ rpc = "tp1_get"
    /\ active_positions # NoPosition
    /\ 1 \notin heap[active_positions].tp_hit
    /\ 1 \in heap[active_positions].tp_orders
    /\ faults < MaxFaults
    /\ faults' = faults + 1
    /\ ReconcilerToLevels
    /\ tp1_error' = TRUE
    /\ UNCHANGED <<objVars, exchange_name, sideVars, allocated, active_positions, orchVars, monVars>>

\* The tp1 order is FILLED: move_stop_loss_to_entry is called with the entry price
\* of the position check_and_handle_tp1 fetched.
CheckAndHandleTp1_Filled ==
    /\ rpc = "tp1_get"
    /\ active_positions # NoPosition
    /\ 1 \notin heap[active_positions].tp_hit
    /\ Tp1Filled(active_positions)
    /\ rpc' = "tp1_move"
    /\ rref' = active_positions
    /\ UNCHANGED <<rrung, tp1_error>>
    /\ UNCHANGED <<objVars, envVars, active_positions, orchVars, monVars>>

\* A failed move that nobody hears of: no exception, nothing logged.
MoveStopLossToEntry_Dropped ==
    /\ rpc = "tp1_move"
    /\ active_positions = NoPosition
    /\ ReconcilerToLevels
    /\ UNCHANGED tp1_error
    /\ UNCHANGED <<envVars, active_positions, orchVars, monVars>>
    /\ Release(heap)

\* move_stop_loss_to_entry, first lines: position = get_position(symbol); without a
\* position it returns None, check_and_handle_tp1 raises and _monitor_positions logs.
MoveStopLossToEntry_NoPosition ==
    /\ rpc = "tp1_move"
    /\ active_positions = NoPosition
    /\ ReconcilerToLevels
    /\ tp1_error' = TRUE
    /\ UNCHANGED <<envVars, active_positions, orchVars, monVars>>
    /\ Release(heap)

\* position['stop_loss_price'] = entry_price; position['stop_loss_order_id'] = 'MONITORED'
move_stop_loss_price(h, o, entry_price) ==
    [h EXCEPT ![o].stop_loss_price = entry_price,
              ![o].stop_loss_order_id = "MONITORED"]

MoveStopLossToEntry_SetPrice ==
    /\ rpc = "tp1_move"
    /\ active_positions # NoPosition
    /\ heap' = move_stop_loss_price(heap, active_positions, heap[rref].entry_price)
    /\ rpc' = "tp1_mark_moved"
    /\ UNCHANGED <<rref, rrung, tp1_error>>
    /\ UNCHANGED <<fill_level, liq_count, envVars, active_positions, orchVars, monVars>>

\* A monitor update that moves a stop already at the new price one unit further.
update_stop_loss_price_stepping(h, new_sl_price) ==
    IF active_positions = NoPosition THEN h
    ELSE [h EXCEPT ![active_positions].stop_loss_price =
                       IF @ = new_sl_price THEN new_sl_price + 1 ELSE new_sl_price]

\* StopLossMonitor.update_stop_loss_price(symbol, entry_price)
update_stop_loss_price(h, new_sl_price) ==
    IF active_positions = NoPosition THEN h
    ELSE [h EXCEPT ![active_positions].stop_loss_price = new_sl_price]

\* move_stop_loss_to_entry, last lines: mark_stop_loss_moved(symbol), then
\* self.stop_loss_monitor.update_stop_loss_price(symbol, entry_price); both look the
\* position up in the store again.
MoveStopLossToEntry_MarkMoved ==
    /\ rpc = "tp1_mark_moved"
    /\ heap' = update_stop_loss_price(mark_stop_loss_moved(heap), heap[rref].entry_price)
    /\ rpc' = "tp1_mark"
    /\ UNCHANGED <<rref, rrung, tp1_error>>
    /\ UNCHANGED <<fill_level, liq_count, envVars, active_positions, orchVars, monVars>>

\* Back in check_and_handle_tp1: the marker and the tp1 flag go on the position it
\* fetched, then mark_tp_hit(symbol, 'tp1') on the position now stored.
CheckAndHandleTp1_MarkHit ==
    /\ rpc = "tp1_mark"
    /\ heap' = mark_tp_hit([heap EXCEPT ![rref].stop_loss_order_id = "MONITORED",
                                        ![rref].tp_hit = @ \cup {1}], 1)
    /\ rpc' = "tp1_qty"
    /\ UNCHANGED <<rref, rrung, tp1_error>>
    /\ UNCHANGED <<fill_level, liq_count, envVars, active_positions, orchVars, monVars>>

\* tp1_close_qty from the fetched position, update_position_quantity on the stored one.
CheckAndHandleTp1_UpdateQuantity ==
    /\ rpc = "tp1_qty"
    /\ ReconcilerToLevels
    /\ UNCHANGED tp1_error
    /\ UNCHANGED <<envVars, active_positions, orchVars, monVars>>
    /\ Release(update_position_quantity(heap,
                  calculate_close_quantity(heap[rref].initial_quantity, 1,
                                           heap[rref].remaining_quantity)))

\* _check_tp_levels: position = get_position(symbol); without one it returns.
CheckTpLevels_Get ==
    /\ rpc = "levels_get"
    /\ IF active_positions = NoPosition
          THEN ReconcilerCycleEnds
          ELSE /\ rpc' = "level"
               /\ rref' = active_positions
               /\ rrung' = 2
               /\ UNCHANGED tp1_error
    /\ UNCHANGED <<objVars, envVars, active_positions, orchVars, monVars>>

ReconcilerNextLevel ==
    IF rrung = 5 THEN ReconcilerCycleEnds
    ELSE /\ rpc' = "level"
         /\ rrung' = rrung + 1
         /\ UNCHANGED <<rref, tp1_error>>

\* One rung of the loop of _check_tp_levels that ends in `continue` or in a status
\* other than FILLED: the rung is hit already, has no order, or its order still rests.
CheckTpLevels_Skip ==
    /\ rpc = "level"
    /\ \/ rrung \in heap[rref].tp_hit
       \/ ~OrderFilled(rref, rrung)
    /\ ReconcilerNextLevel
    /\ UNCHANGED <<envVars, active_positions, orchVars, monVars>>
    /\ Release(heap)

\* get_order_status raises: logged, and the loop goes on to the next rung.
CheckTpLevels_QueryFails ==
    /\ rpc = "level"
    /\ rrung \notin heap[rref].tp_hit
    /\ rrung \in heap[rref].tp_orders
    /\ faults < MaxFaults
    /\ faults' = faults + 1
    /\ ReconcilerNextLevel
    /\ UNCHANGED <<exchange_name, sideVars, allocated, active_positions, orchVars, monVars>>
    /\ Release(heap)

\* The rung's order is FILLED: mark_tp_hit(symbol, tp_level).
CheckTpLevels_MarkHit ==
    /\ rpc = "level"
    /\ rrung \notin heap[rref].tp_hit
    /\ OrderFilled(rref, rrung)
    /\ heap' = mark_tp_hit(heap, rrung)
    /\ rpc' = "level_qty"
    /\ UNCHANGED <<rref, rrung, tp1_error>>
    /\ UNCHANGED <<fill_level, liq_count, envVars, active_positions, orchVars, monVars>>

\* close_qty from the position _check_tp_levels fetched, update_position_quantity on
\* the stored one.
CheckTpLevels_UpdateQuantity ==
    /\ rpc = "level_qty"
    /\ ReconcilerNextLevel
    /\ UNCHANGED <<envVars, active_positions, orchVars, monVars>>
    /\ Release(update_position_quantity(heap,
                  calculate_close_quantity(heap[rref].initial_quantity, rrung,
                                           heap[rref].remaining_quantity)))

Reconciler ==
    \/ MonitorPositions_Snapshot
    \/ CheckAndHandleTp1_Return
    \/ CheckAndHandleTp1_QueryFails
    \/ CheckAndHandleTp1_Filled
    \/ MoveStopLossToEntry_NoPosition
    \/ MoveStopLossToEntry_SetPrice
    \/ MoveStopLossToEntry_MarkMoved
    \/ CheckAndHandleTp1_MarkHit
    \/ CheckAndHandleTp1_UpdateQuantity
    \/ CheckTpLevels_Get
    \/ CheckTpLevels_Skip
    \/ CheckTpLevels_QueryFails
    \/ CheckTpLevels_MarkHit
    \/ CheckTpLevels_UpdateQuantity

\* ------------------------------------------------------- the Stop-Loss Monitor
\* The cycle of _monitor_loop is over (time.sleep(self.check_interval) is next).
MonitorCycleEnds ==
    /\ mpc' = "idle"
    /\ mref' = NoPosition
    /\ mprice' = NoPrice
    /\ last_liq' = NoLiq

\* _monitor_loop: positions = get_all_positions(); the copy holds the stored dict.
MonitorLoop_Snapshot ==
    /\ mpc = "idle"
    /\ active_positions # NoPosition
    /\ mpc' = "check"
    /\ mref' = active_positions
    /\ UNCHANGED <<mprice, last_liq>>
    /\ UNCHANGED <<objVars, envVars, active_positions, orchVars, reconVars>>

\* The stop-loss price _check_stop_loss compares with: the position's, or 5% from
\* entry while the position has none.
monitored_sl_price(position) ==
    IF position.stop_loss_price # NoPrice THEN position.stop_loss_price
    ELSE IF position.side = "BUY"
         THEN (position.entry_price * (100 - StopLossPercent)) \div 100
         ELSE (position.entry_price * (100 + StopLossPercent)) \div 100

\* A trigger rule that fires only beyond the stop, not at it.
should_trigger_beyond(position, current_price) ==
    IF position.side = "BUY" THEN current_price < monitored_sl_price(position)
                             ELSE current_price > monitored_sl_price(position)

\* should_trigger of _check_stop_loss.
should_trigger(position, current_price) ==
    IF position.side = "BUY" THEN current_price <= monitored_sl_price(position)
                             ELSE current_price >= monitored_sl_price(position)

\* _check_stop_loss: get_ticker_price raises; logged, nothing else happens.
CheckStopLoss_PriceFails ==
    /\ mpc = "check"
    /\ faults < MaxFaults
    /\ faults' = faults + 1
    /\ mpc' = "take_profits"
    /\ UNCHANGED <<mref, mprice, last_liq>>
    /\ UNCHANGED <<objVars, exchange_name, sideVars, allocated, active_positions, orchVars, reconVars>>

\* _check_stop_loss: current_price = self.client.get_ticker_price(symbol)
CheckStopLoss_Price ==
    /\ mpc = "check"
    /\ \E current_price \in Prices : mprice' = current_price
    /\ mpc' = "decide"
    /\ UNCHANGED <<mref, last_liq>>
    /\ UNCHANGED <<objVars, envVars, active_positions, orchVars, reconVars>>

\* _check_stop_loss, after the price: the position's fields are read and
\* _execute_stop_loss is called when should_trigger and remaining_qty > 0.
CheckStopLoss_Decide ==
    /\ mpc = "decide"
    /\ IF should_trigger(heap[mref], mprice) /\ heap[mref].remaining_quantity > 0
          THEN /\ mpc' = "execute"
               /\ UNCHANGED mprice
          ELSE /\ mpc' = "take_profits"
               /\ mprice' = NoPrice
    /\ UNCHANGED <<mref, last_liq>>
    /\ UNCHANGED <<objVars, envVars, active_positions, orchVars, reconVars>>

\* _execute_stop_loss reads remaining_quantity again: nothing left, it returns.
ExecuteStopLoss_NoQuantity ==
    /\ mpc = "execute"
    /\ heap[mref].remaining_quantity <= 0
    /\ mpc' = "take_profits"
    /\ mprice' = NoPrice
    /\ UNCHANGED <<mref, last_liq>>
    /\ UNCHANGED <<objVars, envVars, active_positions, orchVars, reconVars>>

\* The order _execute_stop_loss sends: place_market_sell(symbol, remaining_qty) for a
\* long, place_market_buy(symbol, remaining_qty * current_price) for a short.
stop_loss_order(o, current_price, accepted) ==
    IF heap[o].side = "BUY"
    THEN [position |-> o, side |-> "SELL", quantity |-> heap[o].remaining_quantity,
          notional |-> 0, accepted |-> accepted]
    ELSE [position |-> o, side |-> "BUY", quantity |-> 0,
          notional |-> heap[o].remaining_quantity * current_price, accepted |-> accepted]

Bump(n) == IF n < MaxLiq THEN n + 1 ELSE n

\* A failure path that closes the position although no order went through.
ExecuteStopLoss_FailureCloses ==
    /\ mpc = "execute"
    /\ heap[mref].remaining_quantity > 0
    /\ faults < MaxFaults
    /\ faults' = faults + 1
    /\ last_liq' = stop_loss_order(mref, mprice, FALSE)
    /\ liq_count' = [liq_count EXCEPT ![mref].sent = Bump(@)]
    /\ active_positions' = close_position
    /\ mpc' = "take_profits"
    /\ mprice' = NoPrice
    /\ UNCHANGED mref
    /\ UNCHANGED <<heap, fill_level, exchange_name, sideVars, allocated, orchVars, reconVars>>

\* The order call raises, or answers without an order reference: logged.
ExecuteStopLoss_OrderFails ==
    /\ mpc = "execute"
    /\ heap[mref].remaining_quantity > 0
    /\ faults < MaxFaults
    /\ faults' = faults + 1
    /\ last_liq' = stop_loss_order(mref, mprice, FALSE)
    /\ liq_count' = [liq_count EXCEPT ![mref].sent = Bump(@)]
    /\ mpc' = "take_profits"
    /\ mprice' = NoPrice
    /\ UNCHANGED mref
    /\ UNCHANGED <<heap, fill_level, exchange_name, sideVars, allocated, active_positions, orchVars, reconVars>>

\* The venue accepts the order.  `'orderId' in order_response` decides what follows:
\* close_position(symbol), or the error log "Failed to execute stop-loss".
ExecuteStopLoss_Accepted ==
    /\ mpc = "execute"
    /\ heap[mref].remaining_quantity > 0
    /\ last_liq' = stop_loss_order(mref, mprice, TRUE)
    /\ liq_count' = [liq_count EXCEPT ![mref].sent = Bump(@), ![mref].accepted = Bump(@)]
    /\ mpc' = IF HasOrderId THEN "close" ELSE "take_profits"
    /\ mprice' = NoPrice
    /\ UNCHANGED mref
    /\ UNCHANGED <<heap, fill_level, envVars, active_positions, orchVars, reconVars>>

ExecuteStopLoss_ClosePosition ==
    /\ mpc = "close"
    /\ active_positions' = close_position
    /\ mpc' = "take_profits"
    /\ UNCHANGED <<mref, mprice, last_liq>>
    /\ UNCHANGED <<envVars, orchVars, reconVars>>
    /\ Release(heap)

\* _check_take_profits fetches the price and logs the rungs it has reached; it
\* changes nothing.  The cycle ends.
CheckTakeProfits ==
    /\ mpc = "take_profits"
    /\ MonitorCycleEnds
    /\ UNCHANGED <<envVars, active_positions, orchVars, reconVars>>
    /\ Release(heap)

StopLossMonitor ==
    \/ MonitorLoop_Snapshot
    \/ CheckStopLoss_PriceFails
    \/ CheckStopLoss_Price
    \/ CheckStopLoss_Decide
    \/ ExecuteStopLoss_NoQuantity
    \/ ExecuteStopLoss_OrderFails
    \/ ExecuteStopLoss_Accepted
    \/ ExecuteStopLoss_ClosePosition
    \/ CheckTakeProfits

\* The three workers and the venue.
Next ==
    \/ ExecuteBuy_EntryFlat
    \/ OpenShort_EntryFlat
    \/ LadderSetup
    \/ Reconciler
    \/ StopLossMonitor
    \/ VenueFill

Spec == Init /\ [][Next]_vars

\* BUY signals arrive at any time, also for a symbol with an open position, while the
\* reconciler runs; the Stop-Loss Monitor is stopped (stop_monitoring).
NextOverlap ==
    \/ ExecuteBuy_Entry
    \/ ExecuteBuy_CreatePosition
    \/ ExecuteBuy_InitialStopLoss
    \/ PlaceTakeProfitOrders_Placed
    \/ PlaceTakeProfitOrders_Rejected
    \/ MonitorPositions_Snapshot
    \/ CheckAndHandleTp1_Return
    \/ CheckAndHandleTp1_QueryFails
    \/ CheckAndHandleTp1_Filled
    \/ MoveStopLossToEntry_SetPrice
    \/ MoveStopLossToEntry_MarkMoved
    \/ CheckAndHandleTp1_MarkHit
    \/ CheckAndHandleTp1_UpdateQuantity
    \/ CheckTpLevels_Get
    \/ CheckTpLevels_Skip
    \/ CheckTpLevels_QueryFails
    \/ CheckTpLevels_MarkHit
    \/ CheckTpLevels_UpdateQuantity
    \/ VenueFill

SpecOverlap == Init /\ [][NextOverlap]_vars

\* The ticker stays at or beyond the stop of the position being checked.
CheckStopLoss_BreachingPrice ==
    /\ CheckStopLoss_Price
    /\ should_trigger(heap[mref], mprice')

\* The Stop-Loss Monitor while every price it fetches breaches the stop.
MonitorUnderBreach ==
    \/ MonitorLoop_Snapshot
    \/ CheckStopLoss_PriceFails
    \/ CheckStopLoss_BreachingPrice
    \/ CheckStopLoss_Decide
    \/ ExecuteStopLoss_NoQuantity
    \/ ExecuteStopLoss_OrderFails
    \/ ExecuteStopLoss_Accepted
    \/ ExecuteStopLoss_ClosePosition
    \/ CheckTakeProfits

LiveNext ==
    \/ ExecuteBuy_EntryFlat
    \/ OpenShort_EntryFlat
    \/ LadderSetup
    \/ Reconciler
    \/ MonitorUnderBreach
    \/ VenueFill

\* The monitor thread keeps running (while self.monitoring_active, a sleep between
\* cycles); Gateway failures are finitely many (MaxFaults).
LiveSpec == Init /\ [][LiveNext]_vars /\ WF_vars(MonitorUnderBreach)

\* The three worker threads keep running and the venue goes on filling resting orders.
LadderSpec ==
    /\ Init /\ [][Next]_vars
    /\ WF_vars(Reconciler) /\ WF_vars(StopLossMonitor) /\ WF_vars(VenueFill)

\* ------------------------------------------- the two loops, over several symbols
\* Everything the single-symbol model above is made of.
coreVars == <<objVars, exchange_name, allocated, faults, active_positions,
              orchVars, reconVars, monVars>>

notLoopVars == <<coreVars, moveVars, signalVars, logVars, shutdownVars, extraVars>>

Symbols == {"AAA", "BBB"}
\* get_all_positions(): the symbols of the store, in the dict's order.
Snapshots == {<<>>, <<"AAA">>, <<"BBB">>, <<"AAA", "BBB">>, <<"BBB", "AAA">>}
SymbolsOf(snap) == {snap[i] : i \in 1..Len(snap)}

\* A loop in which a rung's status query is guarded only by the loop's own except.
CaughtAt_LoopOnly(l, call) ==
    IF l = "reconciler" /\ call = "rung" THEN "outer" ELSE "inner"

\* Where an exception raised inside a call of the loop body is caught: "inner" by a
\* try/except around that call alone (the loop goes on with what follows), "outer" by
\* the except of the while loop (the rest of the cycle is skipped), "none" by nothing.
\* _check_stop_loss and _check_take_profits wrap their whole body; check_and_handle_tp1
\* re-raises and _monitor_positions catches around the call; _check_tp_levels catches
\* around each rung's status query.
CaughtAt(l, call) ==
    CASE l = "monitor" /\ call = "first" -> "inner"
      [] l = "monitor" /\ call = "second" -> "inner"
      [] l = "reconciler" /\ call = "first" -> "inner"
      [] l = "reconciler" /\ call = "rung" -> "inner"

\* The loop goes to sleep: the cycle is over.
Loop_Sleep ==
    /\ lpc' = "sleep"
    /\ lrung' = 0
    /\ todo' = <<>>
    /\ cycles' = cycles + 1

\* The loop body is done with the symbol at the head of todo.
Loop_NextSymbol ==
    /\ handled' = handled \cup {Head(todo)}
    /\ IF Len(todo) = 1
          THEN Loop_Sleep
          ELSE /\ todo' = Tail(todo)
               /\ lpc' = "first"
               /\ lrung' = 0
               /\ UNCHANGED cycles

\* A call of the loop body raises: what happens next depends on who catches it.
Loop_Raise(call, next_pc, next_rung) ==
    /\ Cardinality(raised) < MaxRaises
    /\ raised' = raised \cup {Head(todo)}
    /\ CASE CaughtAt(loop, call) = "inner" ->
               /\ IF next_pc = "next" THEN Loop_NextSymbol
                  ELSE /\ lpc' = next_pc /\ lrung' = next_rung
                       /\ UNCHANGED <<todo, handled, cycles>>
               /\ UNCHANGED alive
         [] CaughtAt(loop, call) = "outer" ->
               /\ Loop_Sleep
               /\ UNCHANGED <<handled, alive>>
         [] OTHER ->
               /\ alive' = FALSE
               /\ UNCHANGED <<todo, lpc, lrung, handled, cycles>>

\* while self.monitoring_active: positions = get_all_positions(); for symbol, position ...
Loop_Snapshot ==
    /\ alive /\ lpc = "sleep" /\ cycles < MaxCycles
    /\ monitoring_active
    /\ \E snap \in Snapshots :
          /\ snapshot' = snap
          /\ IF snap = <<>>
                THEN Loop_Sleep
                ELSE /\ todo' = snap
                     /\ lpc' = "first"
                     /\ UNCHANGED <<lrung, cycles>>
    /\ handled' = {} /\ raised' = {}
    /\ UNCHANGED <<loop, alive, notLoopVars>>

\* _check_stop_loss(symbol, position) / check_and_handle_tp1(symbol) returns.
Loop_FirstCall ==
    /\ alive /\ lpc = "first"
    /\ lpc' = IF loop = "monitor" THEN "second" ELSE "rung"
    /\ lrung' = IF loop = "monitor" THEN 0 ELSE 2
    /\ UNCHANGED <<loop, snapshot, todo, handled, raised, cycles, alive, notLoopVars>>

\* The price fetch or the liquidation order raises in _check_stop_loss; the status
\* query or the breakeven move raises in check_and_handle_tp1.
Loop_FirstCallRaises ==
    /\ alive /\ lpc = "first"
    /\ Loop_Raise("first", IF loop = "monitor" THEN "second" ELSE "rung",
                           IF loop = "monitor" THEN 0 ELSE 2)
    /\ UNCHANGED <<loop, snapshot, notLoopVars>>

\* _check_take_profits(symbol, position) returns.
Loop_SecondCall ==
    /\ alive /\ lpc = "second"
    /\ Loop_NextSymbol
    /\ UNCHANGED <<loop, snapshot, raised, alive, notLoopVars>>

\* The price fetch raises in _check_take_profits.
Loop_SecondCallRaises ==
    /\ alive /\ lpc = "second"
    /\ Loop_Raise("second", "next", 0)
    /\ UNCHANGED <<loop, snapshot, notLoopVars>>

\* _check_tp_levels: one rung of tp2..tp5 is looked at and the loop goes on.
Loop_Rung ==
    /\ alive /\ lpc = "rung"
    /\ IF lrung = 5 THEN Loop_NextSymbol
       ELSE /\ lrung' = lrung + 1
            /\ UNCHANGED <<lpc, todo, handled, cycles>>
    /\ UNCHANGED <<loop, snapshot, raised, alive, notLoopVars>>

\* _check_tp_levels: the rung's get_order_status raises.
Loop_RungRaises ==
    /\ alive /\ lpc = "rung"
    /\ Loop_Raise("rung", IF lrung = 5 THEN "next" ELSE "rung", lrung + 1)
    /\ UNCHANGED <<loop, snapshot, notLoopVars>>

InitLoops ==
    /\ InitCore
    /\ loop \in {"monitor", "reconciler"}
    /\ snapshot = <<>> /\ todo = <<>>
    /\ lpc = "sleep" /\ lrung = 0
    /\ handled = {} /\ raised = {}
    /\ cycles = 0 /\ alive = TRUE
    /\ MoveIdle /\ SignalIdle /\ ShutdownIdle /\ ExtraIdle

NextLoops ==
    \/ Loop_Snapshot
    \/ Loop_FirstCall
    \/ Loop_FirstCallRaises
    \/ Loop_SecondCall
    \/ Loop_SecondCallRaises
    \/ Loop_Rung
    \/ Loop_RungRaises

SpecLoops == InitLoops /\ [][NextLoops]_vars

\* ------------------------------------------------- the loops: shutting down
\* What a shutdown leaves alone.
notShutdownVars == <<coreVars, moveVars, signalVars, logVars, extraVars>>

\* StopLossMonitor.stop_monitoring(): self.monitoring_active = False.  The reconciler
\* thread's flag, TradingExecutor.monitoring_active, is set True once and has no
\* method that clears it.
StopMonitoring ==
    /\ loop = "monitor"
    /\ alive /\ ~shutdown
    /\ monitoring_active' = FALSE
    /\ shutdown' = TRUE
    /\ UNCHANGED <<loopVars, notShutdownVars>>

\* `while self.monitoring_active` finds the flag cleared: the thread's function returns.
Loop_Exits ==
    /\ alive /\ lpc = "sleep"
    /\ ~monitoring_active
    /\ alive' = FALSE
    /\ UNCHANGED <<loop, snapshot, todo, lpc, lrung, handled, raised, cycles>>
    /\ UNCHANGED <<shutdownVars, notShutdownVars>>

\* main(): `except KeyboardInterrupt: logger.info("Shutting down...")`, and main
\* returns without a call to either worker.  Both threads are daemon threads: they end
\* with the interpreter, wherever they are.
Process_Exits ==
    /\ alive /\ ~shutdown
    /\ shutdown' = TRUE
    /\ alive' = FALSE
    /\ UNCHANGED <<loop, snapshot, todo, lpc, lrung, handled, raised, cycles>>
    /\ UNCHANGED <<monitoring_active, notShutdownVars>>

NextShutdown ==
    \/ NextLoops
    \/ StopMonitoring
    \/ Loop_Exits
    \/ Process_Exits

SpecShutdown == InitLoops /\ [][NextShutdown]_vars

\* ----------------------------------------- the breakeven move, called repeatedly
MaxMoveCalls == 3

\* remaining_quantity once the rungs 2..k have been reconciled in rung order (tp1 is
\* reconciled by check_and_handle_tp1, after the move).
RECURSIVE RemainingAfter(_, _)
RemainingAfter(initial_quantity, k) ==
    IF k <= 1 THEN initial_quantity
    ELSE LET before == RemainingAfter(initial_quantity, k - 1)
         IN  before - calculate_close_quantity(initial_quantity, k, before)

\* Open positions the store can hold: created, with or without the initial stop
\* written, with or without the ladder placed, and rungs reconciled in rung order.
OpenPositions ==
    { [create_position(p, sd, q) EXCEPT
           !.stop_loss_price = IF monitored THEN calculate_sl_price(p, sd) ELSE NoPrice,
           !.stop_loss_order_id = IF monitored THEN "MONITORED" ELSE "None",
           !.tp_orders = IF k > 1 \/ monitored THEN Rungs ELSE {},
           !.tp_hit = 2..k,
           !.remaining_quantity = RemainingAfter(q, k)] :
        p \in EntryPrices, sd \in Sides, q \in Quantities,
        monitored \in BOOLEAN, k \in 1..5 }

\* The store holds one open position.
InitMoveStored ==
    /\ exchange_name \in Exchanges
    /\ \E position \in OpenPositions : heap = [o \in Objects |-> IF o = 1 THEN position ELSE Blank]
    /\ allocated = 1
    /\ active_positions = 1
    /\ fill_level = [o \in Objects |-> 0]
    /\ faults = 0
    /\ opc = "idle" /\ oref = NoPosition
    /\ oside = "BUY" /\ oqty = 0 /\ oprice = NoPrice
    /\ rpc = "idle" /\ rref = NoPosition /\ rrung = 0 /\ tp1_error = FALSE
    /\ mpc = "idle" /\ mref = NoPosition /\ mprice = NoPrice
    /\ liq_count = [o \in Objects |-> NoOrders]
    /\ last_liq = NoLiq
    /\ LoopIdle /\ MoveIdle /\ SignalIdle /\ ShutdownIdle /\ ExtraIdle

\* move_stop_loss_to_entry(symbol, entry_price, side, current_sl_order_id), start to
\* end, called with the position's entry price; it returns 'MONITORED'.
MoveStopLossToEntry_Call ==
    /\ move_calls < MaxMoveCalls
    /\ active_positions # NoPosition
    /\ LET entry_price == heap[active_positions].entry_price IN
       heap' = update_stop_loss_price(
                   mark_stop_loss_moved(
                       move_stop_loss_price(heap, active_positions, entry_price)),
                   entry_price)
    /\ move_calls' = move_calls + 1
    /\ move_result' = "MONITORED"
    /\ UNCHANGED <<fill_level, liq_count, exchange_name, allocated, faults, loopVars,
                   signalVars, logVars, shutdownVars, extraVars, active_positions, orchVars,
                   reconVars, monVars>>

NextMove == MoveStopLossToEntry_Call

SpecMove == InitMoveStored /\ [][NextMove]_vars

\* ------------------------------------------------------------ the audit log
\* SignalMonitor: a deque of records bounded by max_signals and, on reads, by the
\* retention window.  Time is counted in ticks of the clock.
\* max_signals
MaxSignals == 2
\* retention_seconds
RetentionWindow == 2
\* The clock stops here.
MaxTime == 4
\* add_signal calls in one run.
MaxAdds == 4

notLogVars == <<coreVars, loopVars, moveVars, shutdownVars, extraVars>>
requestVars == <<config, payload, signal_data, wpc, gate, gateway_calls, position_size,
                 free_balance,
                 result, executor, ack, gates_raised, ticker_price, filled_order,
                 sell_available, sell_orders>>

\* A plain list's append.
deque_append_unbounded(log, record) == Append(log, record)

\* deque(maxlen=max_signals).append: a full deque drops its oldest record.
deque_append(log, record) ==
    IF Len(log) >= MaxSignals
    THEN Append(SubSeq(log, Len(log) - MaxSignals + 2, Len(log)), record)
    ELSE Append(log, record)

\* The record add_signal builds; seq is the call's number, kept to tell arrivals apart.
signal_record(symbol, signal, executed, error) ==
    [timestamp |-> now, seq |-> added + 1, symbol |-> symbol, signal |-> signal,
     executed |-> executed, error |-> error]

\* _cleanup_old_signals: popleft while the oldest record is older than the window.
RECURSIVE cleanup_old_signals(_)
cleanup_old_signals(log) ==
    IF log # <<>> /\ Head(log).timestamp < now - RetentionWindow
    THEN cleanup_old_signals(Tail(log))
    ELSE log

\* One record put into a list sorted newest first, behind the records as new as it.
RECURSIVE insert_newest_first(_, _)
insert_newest_first(sorted, record) ==
    IF sorted = <<>> THEN <<record>>
    ELSE IF Head(sorted).timestamp >= record.timestamp
         THEN <<Head(sorted)>> \o insert_newest_first(Tail(sorted), record)
         ELSE <<record>> \o sorted

\* list.sort(key=timestamp, reverse=True), which is stable.
RECURSIVE sort_newest_first(_)
sort_newest_first(log) ==
    IF log = <<>> THEN <<>>
    ELSE insert_newest_first(sort_newest_first(SubSeq(log, 1, Len(log) - 1)), log[Len(log)])

\* get_recent_signals(limit): the records inside the window, newest first, at most
\* `limit` of them.
recent_signals(log, limit) ==
    LET inside == SelectSeq(log, LAMBDA r : r.timestamp >= now - RetentionWindow)
        sorted == sort_newest_first(inside)
    IN IF Len(sorted) > limit THEN SubSeq(sorted, 1, limit) ELSE sorted

\* add_signal(signal_data, executed, error): no cleanup is made here.
Log_AddSignal ==
    /\ added < MaxAdds
    /\ \E executed \in BOOLEAN :
          audit' = deque_append(audit,
                       signal_record("AAPL", "BUY", executed,
                                     IF executed THEN "None" ELSE "failed"))
    /\ total_signals' = total_signals + 1
    /\ added' = added + 1
    /\ last_call' = "add_signal"
    /\ UNCHANGED <<now, returned, requestVars, notLogVars>>

\* Time passes.
Log_Tick ==
    /\ now < MaxTime
    /\ now' = now + 1
    /\ last_call' = "none"
    /\ UNCHANGED <<audit, added, total_signals, returned, requestVars, notLogVars>>

\* get_recent_signals(limit): cleanup first, then the filtered, sorted, limited list.
Log_GetRecentSignals ==
    /\ audit' = cleanup_old_signals(audit)
    /\ \E limit \in {1, 10} :
          returned' = recent_signals(cleanup_old_signals(audit), limit)
    /\ last_call' = "get_recent_signals"
    /\ UNCHANGED <<now, added, total_signals, requestVars, notLogVars>>

\* get_status(): cleanup before the counts are reported.
Log_GetStatus ==
    /\ audit' = cleanup_old_signals(audit)
    /\ last_call' = "get_status"
    /\ UNCHANGED <<now, added, total_signals, returned, requestVars, notLogVars>>

NextLog ==
    \/ Log_AddSignal
    \/ Log_Tick
    \/ Log_GetRecentSignals
    \/ Log_GetStatus

SpecLog == Init /\ [][NextLog]_vars

\* ------------------------------------------------- the webhook: one signal
\* One POST /webhook, from the payload to the audit record, with an executor
\* configured.  The payload is what request.get_json() answered ("json") or, when
\* that is empty, the form fields of a pipe-delimited alert ("form"): `message` is
\* KEY=VALUE pairs joined by '|', of which SYMBOL and SIGNAL matter here.
notSignalVars == <<coreVars, loopVars, moveVars, shutdownVars, extraVars>>

AllKeys == {"symbol", "signal", "indicators", "price", "strategy"}

Payloads ==
    [content : {"json", "form"},
     symbol : {Absent, "BTCUSDT"},
     signal : {Absent, "BUY", "buy", "Sell", "HOLD"},
     strategy : {Absent, "empty", "true", "false"},
     ticker : {Absent, "AAPL"},
     SYMBOL : {Absent, "BTCUSDT"},
     SIGNAL : {Absent, "BUY", "hold"},
     TIME : {Absent}]

\* The configuration TradingExecutor.__init__ reads; POSITION_SIZE_FIXED 0 stands for
\* a fixed size that is None or 0 (`if self.position_size_fixed` is false for both).
Configs ==
    [USE_PERCENTAGE : BOOLEAN,
     POSITION_SIZE_PERCENT : {5, 50, 150},
     POSITION_SIZE_FIXED : {0, 0 - 50, 100}]

\* The free quote balance the venue may report.
Balances == {0, 10000}

\* str.upper() on the side strings in use.
upper(s) ==
    CASE s = "buy" -> "BUY"
      [] s = "Sell" -> "SELL"
      [] s = "hold" -> "HOLD"
      [] OTHER -> s

\* _parse_pipe_message: the symbol is `ticker or fields.get('SYMBOL', '')`, the side
\* fields.get('SIGNAL', ''); indicators and price are built from defaults and
\* strategy.all_conditions_met is set True.
parse_pipe_message(data) ==
    [keys |-> AllKeys,
     symbol |-> IF data.ticker # Absent THEN data.ticker
                ELSE IF data.SYMBOL # Absent THEN data.SYMBOL ELSE "",
     signal |-> IF data.SIGNAL # Absent THEN data.SIGNAL ELSE "",
     strategy |-> "true"]

\* The conversion to the Alpaca crypto format: a symbol without '/' whose base is a
\* known crypto ticker becomes BASE/USD.
alpaca_symbol(symbol) == IF symbol = "BTCUSDT" THEN "BTC/USD" ELSE symbol

\* The structured branch of _parse_signal_data: indicators, strategy and price are
\* added when missing (strategy as {'all_conditions_met': True}).
structured(symbol, signal, strategy) ==
    [keys |-> AllKeys,
     symbol |-> alpaca_symbol(symbol),
     signal |-> signal,
     strategy |-> IF strategy = Absent THEN "true" ELSE strategy]

\* _parse_signal_data: structured when both `symbol` and `signal` are keys of the
\* data, the pipe-delimited form otherwise.
parse_signal_data(data) ==
    IF data.symbol # Absent /\ data.signal # Absent
    THEN structured(data.symbol, data.signal, data.strategy)
    ELSE parse_pipe_message(data)

\* _handle_webhook up to signal_data: form data with a message goes through
\* _parse_pipe_message first, and its result, which has both keys, through the
\* structured branch.
parsed_signal(data) ==
    IF data.content = "form"
    THEN LET d == parse_pipe_message(data) IN structured(d.symbol, d.signal, d.strategy)
    ELSE parse_signal_data(data)

\* validate_signal with the side test left out.
validate_signal_any_side(signal) ==
    /\ {"symbol", "signal", "indicators", "price"} \subseteq signal.keys
    /\ signal.strategy = "true"

\* validate_signal: the four required keys, the side after upper(), and
\* strategy.get('all_conditions_met', False).
validate_signal(signal) ==
    /\ {"symbol", "signal", "indicators", "price"} \subseteq signal.keys
    /\ upper(signal.signal) \in {"BUY", "SELL"}
    /\ signal.strategy = "true"

\* The configured percentage taken as it is.
position_size_percent_unclamped == config.POSITION_SIZE_PERCENT

\* max(20.0, min(100.0, POSITION_SIZE_PERCENT))
position_size_percent ==
    LET p == config.POSITION_SIZE_PERCENT
        capped == IF p < 100 THEN p ELSE 100
    IN IF capped > 20 THEN capped ELSE 20

\* `if self.position_size_fixed: return float(self.position_size_fixed)`, else 0.0
fixed_or_zero == IF config.POSITION_SIZE_FIXED # 0 THEN config.POSITION_SIZE_FIXED ELSE 0

\* A size test that lets a zero notional through.
size_rejected_negative(size) == size < 0

\* `if position_size_usdt <= 0: return None`
size_rejected(size) == size <= 0

\* What a request may find where the executor should be: one configured, none and
\* demo mode off, none and demo mode on.
Executors == {"configured", "none", "demo"}

\* The pre-trade prices get_ticker_price may answer.
TickerPrices == {100, 101}

\* The holdings execute_sell may find (a short position reads as a negative qty).
Holdings == {0 - 1600, 0, 1600}

\* A message field that float() and int() take.
NumericTexts == {"1700000000"}

\* A side that is not a string (a JSON number, say).
NotAString == "<not a string>"

\* What get_order_status may answer for the entry order, in the venue's shape: MEXC
\* {status, price, executedQty, cummulativeQuoteQty, ...}, where price is the order's
\* price field, and Alpaca {status, filled_qty, filled_avg_price, qty, notional, ...}.
\* The average fill price is one of EntryPrices; numbers arrive as non-empty strings.
StatusResponses ==
    IF exchange_name = "mexc"
    THEN {[NoResponse EXCEPT !.keys = {"status", "price", "executedQty", "cummulativeQuoteQty"},
                             !.status = IF q > 0 THEN "FILLED" ELSE "NEW",
                             !.price = p,
                             !.executedQty = q,
                             !.cummulativeQuoteQty = q * a] :
             q \in {0} \cup Quantities, a \in EntryPrices, p \in {100, 102}}
    ELSE {[NoResponse EXCEPT !.keys = {"status", "filled_qty", "filled_avg_price", "qty",
                                       "notional"},
                             !.status = IF q > 0 THEN "filled" ELSE "new",
                             !.filled_qty = q,
                             !.filled_avg_price = IF q > 0 THEN a ELSE 0,
                             !.notional = position_size] :
             q \in {0} \cup Quantities, a \in EntryPrices}

\* status.upper() on the statuses in use.
upper_status(status) ==
    CASE status = "filled" -> "FILLED"
      [] status = "new" -> "NEW"
      [] OTHER -> status

\* execute_buy, the executed quantity: executedQty, else filled_qty, else qty of an
\* order reported FILLED, else 0.0.
executed_qty(response) ==
    IF "executedQty" \in response.keys THEN response.executedQty
    ELSE IF "filled_qty" \in response.keys THEN response.filled_qty
    ELSE IF "qty" \in response.keys /\ upper_status(response.status) \in {"FILLED", "FILL"}
         THEN response.qty
    ELSE 0

\* execute_buy, the entry price: the response's `price` when it is there and true (a
\* non-empty string is), else filled_avg_price, else cummulativeQuoteQty / executed,
\* else notional / executed; with none of them the pre-trade ticker price stays.
entry_price_of(response, executed, ticker) ==
    IF "price" \in response.keys THEN response.price
    ELSE IF "filled_avg_price" \in response.keys THEN response.filled_avg_price
    ELSE IF "cummulativeQuoteQty" \in response.keys /\ executed > 0
         THEN response.cummulativeQuoteQty \div executed
    ELSE IF "notional" \in response.keys /\ executed > 0
         THEN response.notional \div executed
    ELSE ticker

\* A fill test that lets an entry with nothing executed through.
nothing_executed_negative(executed) == executed < 0

\* `if executed_qty <= 0: return order_response`
nothing_executed(executed) == executed <= 0

\* A sell of twice the holdings.
sell_quantity_doubled(available) == available + available

\* execute_sell: the configured percentage of the holdings, or all of them, and
\* never more than the holdings.
sell_quantity(available) ==
    LET quantity == IF config.USE_PERCENTAGE
                    THEN (available * position_size_percent) \div 100
                    ELSE available
    IN IF quantity < available THEN quantity ELSE available

\* Whether _parse_pipe_message raises on the data: int(fields.get('TIME', 0)) does on
\* a TIME that is no number.  The message is parsed for form data and for a body
\* without both `symbol` and `signal`.
parse_raises(data) ==
    /\ data.content = "form" \/ ~(data.symbol # Absent /\ data.signal # Absent)
    /\ data.TIME # Absent
    /\ data.TIME \notin NumericTexts

\* An exception that ends the request without an answer.
handle_exception_silent(acks) == acks

\* The handler's outer `except Exception`: the answer {'status': 'error'}, 500.
handle_exception(acks) == Append(acks, "error")

InitSignal ==
    /\ InitCore /\ LoopIdle /\ MoveIdle /\ ShutdownIdle /\ ExtraIdle
    /\ config \in Configs
    /\ payload \in Payloads
    /\ executor = "configured"
    /\ wpc = "received"
    /\ RequestFresh
    /\ LogEmpty

\* signal_data = self._parse_signal_data(data); it is never empty, so the handler's
\* 'Invalid signal data' answer is never given.
HandleWebhook_Parse ==
    /\ wpc = "received"
    /\ ~parse_raises(payload)
    /\ signal_data' = parsed_signal(payload)
    /\ wpc' = "parsed"
    /\ UNCHANGED <<config, payload, gate, gateway_calls, position_size, free_balance, result, audit,
                   executor, ack, gates_raised, ticker_price, filled_order,
                   sell_available, sell_orders, now, added, total_signals, returned,
                   last_call>>
    /\ UNCHANGED notSignalVars

\* execute_signal: `if not self.validate_signal(signal_data): return None`
ExecuteSignal_Rejected ==
    /\ wpc = "parsed"
    /\ executor = "configured"
    /\ signal_data.signal # NotAString
    /\ ~validate_signal(signal_data)
    /\ gate' = "rejected"
    /\ result' = "None"
    /\ wpc' = "respond"
    /\ UNCHANGED <<config, payload, signal_data, gateway_calls, position_size, free_balance, audit,
                   executor, ack, gates_raised, ticker_price, filled_order,
                   sell_available, sell_orders, now, added, total_signals, returned,
                   last_call>>
    /\ UNCHANGED notSignalVars

\* execute_signal past the gate: BUY goes to execute_buy, SELL to execute_sell (the
\* side is one of the two once validated).
ExecuteSignal_Validated ==
    /\ wpc = "parsed"
    /\ executor = "configured"
    /\ signal_data.signal # NotAString
    /\ validate_signal(signal_data)
    /\ gate' = "passed"
    /\ wpc' = IF upper(signal_data.signal) = "BUY" THEN "buy" ELSE "sell"
    /\ UNCHANGED <<config, payload, signal_data, gateway_calls, position_size, free_balance, result,
                   audit, executor, ack, gates_raised, ticker_price, filled_order,
                   sell_available, sell_orders, now, added, total_signals, returned,
                   last_call>>
    /\ UNCHANGED notSignalVars

\* execute_buy: check_existing_positions (get_open_orders, its failure only logged)
\* and get_ticker_price, which answers a price for a symbol the venue knows.
ExecuteBuy_Price ==
    /\ wpc = "buy"
    /\ signal_data.symbol # ""
    /\ gateway_calls' = gateway_calls \cup {"get_open_orders", "get_ticker_price"}
    /\ \E price \in TickerPrices : ticker_price' = price
    /\ wpc' = "size"
    /\ UNCHANGED <<config, payload, signal_data, gate, position_size, free_balance, result, audit,
                   executor, ack, gates_raised, filled_order, sell_available,
                   sell_orders, now, added, total_signals, returned, last_call>>
    /\ UNCHANGED notSignalVars

\* get_ticker_price raises: execute_buy's except logs and returns None.
ExecuteBuy_PriceFails ==
    /\ wpc = "buy"
    /\ gateway_calls' = gateway_calls \cup {"get_open_orders", "get_ticker_price"}
    /\ gates_raised' = gates_raised \cup {"get_ticker_price"}
    /\ result' = "None"
    /\ wpc' = "respond"
    /\ UNCHANGED <<config, payload, signal_data, gate, position_size, free_balance, audit, executor,
                   ack, ticker_price, filled_order, sell_available, sell_orders, now,
                   added, total_signals, returned, last_call>>
    /\ UNCHANGED notSignalVars

\* calculate_position_size in percentage mode: balance * (percent / 100).
CalculatePositionSize_Percentage ==
    /\ wpc = "size"
    /\ config.USE_PERCENTAGE
    /\ gateway_calls' = gateway_calls \cup {"get_account_info"}
    /\ \E balance \in Balances :
          /\ free_balance' = balance
          /\ position_size' = (balance * position_size_percent) \div 100
    /\ wpc' = "sized"
    /\ UNCHANGED <<config, payload, signal_data, gate, result, audit, executor, ack,
                   gates_raised, ticker_price, filled_order, sell_available,
                   sell_orders, now, added, total_signals, returned, last_call>>
    /\ UNCHANGED notSignalVars

\* The balance lookup raises: the fixed size if there is one, else 0.0.
CalculatePositionSize_LookupFails ==
    /\ wpc = "size"
    /\ config.USE_PERCENTAGE
    /\ gateway_calls' = gateway_calls \cup {"get_account_info"}
    /\ gates_raised' = gates_raised \cup {"get_account_info"}
    /\ position_size' = fixed_or_zero
    /\ wpc' = "sized"
    /\ UNCHANGED <<config, payload, signal_data, gate, result, audit, executor, ack,
                   free_balance, ticker_price, filled_order, sell_available, sell_orders, now, added,
                   total_signals, returned, last_call>>
    /\ UNCHANGED notSignalVars

\* Fixed mode: the fixed size if there is one, else 0.0.
CalculatePositionSize_Fixed ==
    /\ wpc = "size"
    /\ ~config.USE_PERCENTAGE
    /\ position_size' = fixed_or_zero
    /\ wpc' = "sized"
    /\ UNCHANGED <<config, payload, signal_data, gate, gateway_calls, free_balance, result,
                   audit,
                   executor, ack, gates_raised, ticker_price, filled_order,
                   sell_available, sell_orders, now, added, total_signals, returned,
                   last_call>>
    /\ UNCHANGED notSignalVars

\* "Invalid position size calculated": return None.
ExecuteBuy_InvalidSize ==
    /\ wpc = "sized"
    /\ size_rejected(position_size)
    /\ result' = "None"
    /\ wpc' = "respond"
    /\ UNCHANGED <<config, payload, signal_data, gate, gateway_calls, position_size, free_balance,
                   audit, executor, ack, gates_raised, ticker_price, filled_order,
                   sell_available, sell_orders, now, added, total_signals, returned,
                   last_call>>
    /\ UNCHANGED notSignalVars

\* order_response = self.client.place_market_buy(symbol, position_size_usdt)
ExecuteBuy_PlaceMarketBuy ==
    /\ wpc = "sized"
    /\ ~size_rejected(position_size)
    /\ gateway_calls' = gateway_calls \cup {"place_market_buy"}
    /\ wpc' = "ordered"
    /\ UNCHANGED <<config, payload, signal_data, gate, position_size, free_balance, result, audit,
                   executor, ack, gates_raised, ticker_price, filled_order,
                   sell_available, sell_orders, now, added, total_signals, returned,
                   last_call>>
    /\ UNCHANGED notSignalVars

\* place_market_buy raises or answers without an order id, or get_order_status
\* raises: execute_buy returns None with the store untouched.
ExecuteBuy_EntryFails ==
    /\ wpc = "ordered"
    /\ opc = "idle" /\ allocated = 0
    /\ \E gate_raised \in {{}, {"place_market_buy"}, {"get_order_status"}} :
          /\ gates_raised' = gates_raised \cup gate_raised
          /\ gateway_calls' = gateway_calls \cup (gate_raised \cap {"get_order_status"})
    /\ result' = "None"
    /\ wpc' = "respond"
    /\ UNCHANGED <<config, payload, signal_data, gate, position_size, free_balance, audit, executor,
                   ack, ticker_price, filled_order, sell_available, sell_orders, now,
                   added, total_signals, returned, last_call>>
    /\ UNCHANGED notSignalVars

\* The status poll reports nothing executed: "No quantity executed", and execute_buy
\* returns the entry order's response.
ExecuteBuy_NothingExecuted ==
    /\ wpc = "ordered"
    /\ opc = "idle" /\ allocated = 0
    /\ \E response \in StatusResponses :
          /\ nothing_executed(executed_qty(response))
          /\ filled_order' = response
    /\ gateway_calls' = gateway_calls \cup {"get_order_status"}
    /\ result' = "order"
    /\ wpc' = "respond"
    /\ UNCHANGED <<config, payload, signal_data, gate, position_size, free_balance, audit, executor,
                   ack, gates_raised, ticker_price, sell_available, sell_orders, now,
                   added, total_signals, returned, last_call>>
    /\ UNCHANGED notSignalVars

\* The status poll reports a fill: execute_buy takes the executed quantity and the
\* entry price from the response and goes on to the position and its ladder
\* (ExecuteBuy_CreatePosition and what follows).
ExecuteBuy_Filled ==
    /\ wpc = "ordered"
    /\ opc = "idle" /\ allocated = 0
    /\ \E response \in StatusResponses :
          /\ ~nothing_executed(executed_qty(response))
          /\ filled_order' = response
          /\ oqty' = executed_qty(response)
          /\ oprice' = entry_price_of(response, executed_qty(response), ticker_price)
    /\ oside' = "BUY"
    /\ opc' = "create"
    /\ gateway_calls' = gateway_calls \cup {"get_order_status"}
    /\ UNCHANGED <<config, payload, signal_data, wpc, gate, position_size, free_balance, result,
                   audit, executor, ack, gates_raised, ticker_price, sell_available,
                   sell_orders, now, added, total_signals, returned, last_call>>
    /\ UNCHANGED <<oref, objVars, exchange_name, allocated, faults, active_positions,
                   reconVars, monVars, loopVars, moveVars, shutdownVars, extraVars>>

\* execute_buy returns {'entry_order': ..., 'position': ..., ...}.
ExecuteBuy_Returns ==
    /\ wpc = "ordered"
    /\ opc = "idle" /\ allocated > 0
    /\ result' = "order"
    /\ wpc' = "respond"
    /\ UNCHANGED <<config, payload, signal_data, gate, gateway_calls, position_size, free_balance,
                   audit, executor, ack, gates_raised, ticker_price, filled_order,
                   sell_available, sell_orders, now, added, total_signals, returned,
                   last_call>>
    /\ UNCHANGED notSignalVars

\* The lookups execute_sell makes for the holdings: Alpaca's get_position and,
\* without a position, get_balance; get_balance elsewhere.
HoldingsLookups ==
    IF exchange_name = "alpaca"
    THEN {{"get_position"}, {"get_position", "get_balance"}}
    ELSE {{"get_balance"}}

\* execute_sell: the holdings are looked up.
ExecuteSell_Holdings ==
    /\ wpc = "sell"
    /\ \E lookups \in HoldingsLookups : gateway_calls' = gateway_calls \cup lookups
    /\ \E available \in Holdings : sell_available' = available
    /\ wpc' = "sell_sized"
    /\ UNCHANGED <<config, payload, signal_data, gate, position_size, free_balance, result, audit,
                   executor, ack, gates_raised, ticker_price, filled_order,
                   sell_orders, now, added, total_signals, returned, last_call>>
    /\ UNCHANGED notSignalVars

\* The lookup raises: execute_sell's except logs and returns None.
ExecuteSell_LookupFails ==
    /\ wpc = "sell"
    /\ \E lookups \in HoldingsLookups : gateway_calls' = gateway_calls \cup lookups
    /\ gates_raised' = gates_raised \cup {"get_balance"}
    /\ result' = "None"
    /\ wpc' = "respond"
    /\ UNCHANGED <<config, payload, signal_data, gate, position_size, free_balance, audit, executor,
                   ack, ticker_price, filled_order, sell_available, sell_orders, now,
                   added, total_signals, returned, last_call>>
    /\ UNCHANGED notSignalVars

\* `if available_quantity <= 0: return None`
ExecuteSell_NoQuantity ==
    /\ wpc = "sell_sized"
    /\ sell_available <= 0
    /\ result' = "None"
    /\ wpc' = "respond"
    /\ UNCHANGED <<config, payload, signal_data, gate, gateway_calls, position_size, free_balance,
                   audit, executor, ack, gates_raised, ticker_price, filled_order,
                   sell_available, sell_orders, now, added, total_signals, returned,
                   last_call>>
    /\ UNCHANGED notSignalVars

\* execute_sell: a market sell of sell_quantity, whose response it returns.
ExecuteSell_Order ==
    /\ wpc = "sell_sized"
    /\ sell_available > 0
    /\ signal_data.symbol # ""
    /\ sell_orders' = Append(sell_orders, sell_quantity(sell_available))
    /\ gateway_calls' = gateway_calls \cup {"place_market_sell"}
    /\ result' = "order"
    /\ wpc' = "respond"
    /\ UNCHANGED <<config, payload, signal_data, gate, position_size, free_balance, audit, executor,
                   ack, gates_raised, ticker_price, filled_order, sell_available, now,
                   added, total_signals, returned, last_call>>
    /\ UNCHANGED notSignalVars

\* place_market_sell raises: execute_sell's except logs and returns None.
ExecuteSell_OrderFails ==
    /\ wpc = "sell_sized"
    /\ sell_available > 0
    /\ sell_orders' = Append(sell_orders, sell_quantity(sell_available))
    /\ gateway_calls' = gateway_calls \cup {"place_market_sell"}
    /\ gates_raised' = gates_raised \cup {"place_market_sell"}
    /\ result' = "None"
    /\ wpc' = "respond"
    /\ UNCHANGED <<config, payload, signal_data, gate, position_size, free_balance, audit, executor,
                   ack, ticker_price, filled_order, sell_available, now, added,
                   total_signals, returned, last_call>>
    /\ UNCHANGED notSignalVars

\* What the handler does with execute_signal's answer: a response that is not None
\* (and has no 'error' key) is recorded with executed=True and answered 'success',
\* None is recorded with executed=False and an error and answered 'error'.
HandleWebhook_Record ==
    /\ wpc = "respond"
    /\ audit' = deque_append(audit,
                    signal_record(signal_data.symbol, signal_data.signal,
                        result = "order",
                        IF result = "order" THEN "None"
                        ELSE "Failed to execute order (executor returned None)"))
    /\ total_signals' = total_signals + 1
    /\ added' = added + 1
    /\ last_call' = "add_signal"
    /\ ack' = Append(ack, IF result = "order" THEN "success" ELSE "error")
    /\ wpc' = "done"
    /\ UNCHANGED <<config, payload, signal_data, gate, gateway_calls, position_size, free_balance,
                   result, executor, gates_raised, ticker_price, filled_order,
                   sell_available, sell_orders, now, returned>>
    /\ UNCHANGED notSignalVars

NextSignal ==
    \/ HandleWebhook_Parse
    \/ ExecuteSignal_Rejected
    \/ ExecuteSignal_Validated
    \/ ExecuteBuy_Price
    \/ ExecuteBuy_PriceFails
    \/ CalculatePositionSize_Percentage
    \/ CalculatePositionSize_LookupFails
    \/ CalculatePositionSize_Fixed
    \/ ExecuteBuy_InvalidSize
    \/ ExecuteBuy_PlaceMarketBuy
    \/ ExecuteBuy_EntryFails
    \/ ExecuteBuy_NothingExecuted
    \/ ExecuteBuy_Filled
    \/ ExecuteBuy_CreatePosition
    \/ ExecuteBuy_InitialStopLoss
    \/ PlaceTakeProfitOrders_Placed
    \/ PlaceTakeProfitOrders_Rejected
    \/ ExecuteBuy_Returns
    \/ ExecuteSell_Holdings
    \/ ExecuteSell_LookupFails
    \/ ExecuteSell_NoQuantity
    \/ ExecuteSell_Order
    \/ ExecuteSell_OrderFails
    \/ HandleWebhook_Record

SpecSignal == InitSignal /\ [][NextSignal]_vars

\* ------------------------------------------- the webhook: every way it answers
\* The request with the executor missing, with a payload the parser or the validator
\* raises on, as well as the ways above.
WebhookPayloads ==
    [content : {"json", "form"},
     symbol : {Absent, "BTCUSDT"},
     signal : {Absent, "BUY", "Sell", NotAString},
     strategy : {Absent, "false"},
     ticker : {Absent},
     SYMBOL : {Absent, "BTCUSDT"},
     SIGNAL : {Absent, "BUY"},
     TIME : {Absent, "abc"}]

WebhookConfigs ==
    {c \in Configs : c.POSITION_SIZE_PERCENT = 50 /\ c.POSITION_SIZE_FIXED \in {0, 100}}

InitWebhook ==
    /\ InitCore /\ LoopIdle /\ MoveIdle /\ ShutdownIdle /\ ExtraIdle
    /\ config \in WebhookConfigs
    /\ payload \in WebhookPayloads
    /\ executor \in Executors
    /\ wpc = "received"
    /\ RequestFresh
    /\ LogEmpty

\* _parse_pipe_message raises (ValueError from int() or float()): the handler's outer
\* except answers; nothing is recorded.
HandleWebhook_ParseRaises ==
    /\ wpc = "received"
    /\ parse_raises(payload)
    /\ ack' = handle_exception(ack)
    /\ wpc' = "done"
    /\ UNCHANGED <<config, payload, signal_data, gate, gateway_calls, position_size, free_balance,
                   result, audit, executor, gates_raised, ticker_price, filled_order,
                   sell_available, sell_orders, now, added, total_signals, returned,
                   last_call>>
    /\ UNCHANGED notSignalVars

\* validate_signal raises on a side without upper() (AttributeError, which the
\* handler's `except ValueError` lets through to the outer except).
ExecuteSignal_Raises ==
    /\ wpc = "parsed"
    /\ executor = "configured"
    /\ signal_data.signal = NotAString
    /\ ack' = handle_exception(ack)
    /\ wpc' = "done"
    /\ UNCHANGED <<config, payload, signal_data, gate, gateway_calls, position_size, free_balance,
                   result, audit, executor, gates_raised, ticker_price, filled_order,
                   sell_available, sell_orders, now, added, total_signals, returned,
                   last_call>>
    /\ UNCHANGED notSignalVars

\* No executor and demo mode off: the signal is recorded with executed=False and the
\* error 'No trading executor configured', and answered 'received'.
HandleWebhook_NoExecutor ==
    /\ wpc = "parsed"
    /\ executor = "none"
    /\ audit' = deque_append(audit,
                    signal_record(signal_data.symbol, signal_data.signal, FALSE,
                                  "No trading executor configured"))
    /\ total_signals' = total_signals + 1
    /\ added' = added + 1
    /\ last_call' = "add_signal"
    /\ ack' = Append(ack, "received")
    /\ wpc' = "done"
    /\ UNCHANGED <<config, payload, signal_data, gate, gateway_calls, position_size, free_balance,
                   result, executor, gates_raised, ticker_price, filled_order,
                   sell_available, sell_orders, now, returned>>
    /\ UNCHANGED notSignalVars

\* No executor and demo mode on: a simulated trade, recorded with executed=True and
\* answered 'success'.
HandleWebhook_Demo ==
    /\ wpc = "parsed"
    /\ executor = "demo"
    /\ audit' = deque_append(audit,
                    signal_record(signal_data.symbol, signal_data.signal, TRUE, "None"))
    /\ total_signals' = total_signals + 1
    /\ added' = added + 1
    /\ last_call' = "add_signal"
    /\ ack' = Append(ack, "success")
    /\ wpc' = "done"
    /\ UNCHANGED <<config, payload, signal_data, gate, gateway_calls, position_size, free_balance,
                   result, executor, gates_raised, ticker_price, filled_order,
                   sell_available, sell_orders, now, returned>>
    /\ UNCHANGED notSignalVars

NextWebhook ==
    \/ NextSignal
    \/ HandleWebhook_ParseRaises
    \/ ExecuteSignal_Raises
    \/ HandleWebhook_NoExecutor
    \/ HandleWebhook_Demo

\* Flask answers a request once its handler returns, and every step of the handler
\* returns: the handler goes on as long as it has a step to take.
SpecWebhook == InitWebhook /\ [][NextWebhook]_vars /\ WF_vars(NextWebhook)

\* ------------------------------------------------------------------ properties
\* The position stored under the symbol, when there is one.
Stored == active_positions # NoPosition
StoredPosition == heap[active_positions]

\* C1: no reconciler cycle ends with a position in the store whose tp1 rung is marked
\* filled while its stop-loss has not been moved to entry.
C1_BreakevenByCycleEnd ==
    (rpc = "idle" /\ Stored /\ 1 \in StoredPosition.tp_hit)
        => StoredPosition.stop_loss_moved_to_entry

\* C2: in every reachable state, a stored position whose stop-loss is marked as moved
\* to entry has stop_loss_price = entry_price.
C2_MovedMeansAtEntry ==
    (Stored /\ StoredPosition.stop_loss_moved_to_entry)
        => StoredPosition.stop_loss_price = StoredPosition.entry_price

\* C3: for every stored position 0 <= remaining_quantity <= initial_quantity.
C3_RemainingInRange ==
    Stored => /\ 0 <= StoredPosition.remaining_quantity
              /\ StoredPosition.remaining_quantity <= StoredPosition.initial_quantity

\* The stop of a position as the planner states it: the price on the position, the
\* initial stop of calculate_sl_price while none has been written.
CurrentStop(position) ==
    IF position.stop_loss_price # NoPrice THEN position.stop_loss_price
    ELSE calculate_sl_price(position.entry_price, position.side)

Breached(position, price) ==
    \/ position.side = "BUY" /\ price <= CurrentStop(position)
    \/ position.side = "SELL" /\ price >= CurrentStop(position)

\* The monitor's check of a position comes to its decision in this step.
MonitorDecides == mpc = "decide" /\ mpc' # "decide"
LiquidationAttempted == mpc' = "execute"

\* C4: in one check of the Stop-Loss Monitor, forced liquidation is attempted if and
\* only if remaining_quantity > 0 and the fetched price breaches the position's
\* current stop (<= for BUY, >= for SELL); a long entered at 100 with the 5% stop, its
\* stop not yet written over by the breakeven move, is liquidated at 95 and below and
\* not above; after the breakeven move the threshold is the entry price.
C4_TriggerRule ==
    [][MonitorDecides =>
        LET position == heap[mref] IN
        /\ LiquidationAttempted <=>
               (position.remaining_quantity > 0 /\ Breached(position, mprice))
        /\ (/\ position.side = "BUY" /\ position.entry_price = 100
            /\ position.stop_loss_price # position.entry_price
            /\ position.remaining_quantity > 0)
               => (LiquidationAttempted <=> mprice <= 95)
        /\ (/\ position.stop_loss_moved_to_entry
            /\ position.stop_loss_price = position.entry_price
            /\ position.remaining_quantity > 0)
               => (LiquidationAttempted <=>
                      IF position.side = "BUY" THEN mprice <= position.entry_price
                                               ELSE mprice >= position.entry_price)
    ]_vars

\* C4's case: a position whose stop was moved to entry is sent to liquidation by a
\* tick at its entry price.
C4_Witness ==
    /\ mpc = "execute"
    /\ heap[mref].stop_loss_moved_to_entry
    /\ mprice = heap[mref].entry_price

\* The monitor's liquidation order goes out in this step and the venue accepts it.
LiquidationAccepted == mpc = "execute" /\ last_liq' # last_liq /\ last_liq'.accepted

\* C5: a liquidation order the venue accepts is an opposite-side market order for the
\* whole remaining quantity (long: market sell of it; short: market buy of notional
\* remaining x price); the position is out of the store when that monitor cycle ends,
\* and no second liquidation order is accepted for it.
C5_AcceptedLiquidationCloses ==
    [][/\ LiquidationAccepted =>
              LET position == heap[mref] IN
              IF position.side = "BUY"
              THEN /\ last_liq'.side = "SELL"
                   /\ last_liq'.quantity = position.remaining_quantity
              ELSE /\ last_liq'.side = "BUY"
                   /\ last_liq'.notional = position.remaining_quantity * mprice
       /\ (mpc = "take_profits" /\ mpc' = "idle" /\ last_liq.accepted)
              => active_positions # last_liq.position
       /\ \A o \in Objects : liq_count'[o].accepted <= 1
    ]_vars

\* The monitor's liquidation order goes out in this step and fails.
LiquidationFailed == mpc = "execute" /\ last_liq' # last_liq /\ ~last_liq'.accepted
\* A liquidation order for the position has failed and none has been accepted.
FailedBefore(o) == liq_count[o].sent > liq_count[o].accepted /\ liq_count[o].accepted = 0

\* C7: a forced liquidation that fails leaves the store as it is and the position with
\* every field unchanged, the rest of that monitor cycle removes nothing, and a later
\* check of the position attempts liquidation again while the price breaches its stop.
C7_FailedLiquidationKeepsPosition ==
    [][/\ LiquidationFailed =>
              /\ active_positions' = active_positions
              /\ heap'[mref] = heap[mref]
       /\ (mpc = "take_profits" /\ mpc' = "idle" /\ last_liq # NoLiq /\ ~last_liq.accepted)
              => active_positions' = active_positions
       /\ (MonitorDecides /\ FailedBefore(mref) /\ heap[mref].remaining_quantity > 0
               /\ Breached(heap[mref], mprice))
              => LiquidationAttempted
    ]_vars

\* C7's case: after a failed liquidation order the monitor has sent a second one for
\* the same position, which the venue accepted.
C7_Witness ==
    /\ faults = 1
    /\ mref # NoPosition
    /\ liq_count[mref].sent = 2
    /\ liq_count[mref].accepted = 1
    /\ last_liq.accepted

\* The reconciler has marked a rung filled on the stored position and has not yet
\* subtracted the rung's quantity from it.
MarkedNotSubtracted(o) == rpc \in {"tp1_qty", "level_qty"} /\ o = active_positions

\* C8: marking a rung filled and subtracting its quantity is one atomic step for the
\* other workers: the Stop-Loss Monitor never decides on, nor sizes a liquidation
\* order from, a position whose rung is marked while its quantity is not subtracted.
C8_MarkAndDecrementAtomic ==
    [][((MonitorDecides \/ (mpc = "execute" /\ last_liq' # last_liq)))
          => ~MarkedNotSubtracted(mref)]_vars

\* The reconciler subtracts the quantity of a rung in this step.
ReconcilerSubtracts == rpc \in {"tp1_qty", "level_qty"} /\ rpc' # rpc
SubtractedRung == IF rpc = "tp1_qty" THEN 1 ELSE rrung

\* C9: the quantity subtracted from remaining_quantity for a rung observed filled is
\* the quantity of the limit order placed for that rung, for every rung 1..5.
C9_SubtractsPlacedQuantity ==
    [][(ReconcilerSubtracts /\ active_positions # NoPosition) =>
          heap[active_positions].remaining_quantity
              - heap'[active_positions].remaining_quantity
          = placed_quantity(heap[active_positions].initial_quantity, SubtractedRung)
    ]_vars

\* The dict in slot o is the same position before and after the step.
SamePosition(o) == heap[o] # Blank /\ heap'[o] # Blank

\* C10: remaining_quantity of a position never rises in a step of the reconciler or
\* the monitor, and changes only where the reconciler subtracts a rung it saw filled.
C10_RemainingNonIncreasing ==
    [][\A o \in Objects : SamePosition(o) =>
          /\ heap'[o].remaining_quantity <= heap[o].remaining_quantity
          /\ heap'[o].remaining_quantity # heap[o].remaining_quantity
                 => ReconcilerSubtracts
    ]_vars

\* C6: while the monitor loop runs and the price stays at or beyond the stop, every
\* position in the store is eventually removed from it.
C6_BreachedPositionRemoved ==
    \A o \in Objects : (active_positions = o) ~> (active_positions # o)

\* The breakeven move called for a FILLED tp1 order ends without moving the stop.
MoveFails == rpc = "tp1_move" /\ rpc' = "levels_get"
\* The reconciler starts a cycle on the stored position.
ReconcilerCycleStarts == rpc = "idle" /\ rpc' # "idle"

\* C11: a breakeven move that fails after tp1 was seen FILLED is not dropped: no field
\* of any position changes (rung 1 stays unmarked, remaining_quantity stays), the error
\* is logged by the reconciler loop, and every later cycle on a position whose rung 1
\* is unmarked calls check_and_handle_tp1 again, which goes to the move again once it
\* reads the order as FILLED.
C11_FailedMoveNotDropped ==
    [][/\ MoveFails =>
              /\ tp1_error'
              /\ active_positions' = active_positions
              /\ \A o \in Objects : heap'[o] # Blank => heap'[o] = heap[o]
       /\ (ReconcilerCycleStarts /\ 1 \notin heap[active_positions].tp_hit)
              => rpc' = "tp1_get"
       /\ (/\ rpc = "tp1_get" /\ rpc' # "tp1_get" /\ faults' = faults
           /\ active_positions # NoPosition
           /\ 1 \notin heap[active_positions].tp_hit
           /\ Tp1Filled(active_positions))
              => rpc' = "tp1_move"
    ]_vars

\* C11's case: the move found no position (the monitor closed it after the reconciler
\* read tp1 as FILLED) and the reconciler loop has logged the error.
C11_Witness ==
    /\ tp1_error
    /\ faults = 0
    /\ rpc = "levels_get"
    /\ active_positions = NoPosition

\* C12: a position whose five rungs have all been reconciled as filled is eventually
\* removed from the store.
C12_CompletedLadderRemoved ==
    \A o \in Objects :
        (active_positions = o /\ heap[o].tp_hit = Rungs) ~> (active_positions # o)

\* C13: in both loops a call that raises for one symbol (or one rung) neither ends the
\* thread nor costs any other symbol its turn: when a cycle ends, every symbol of its
\* snapshot has been handled, and the thread is alive for the next cycle.
C13_FailuresIsolatedPerSymbol ==
    /\ alive
    /\ (lpc = "sleep" /\ cycles > 0) => handled = SymbolsOf(snapshot)

\* C13's case: a cycle over two symbols has ended in which a call raised for the
\* first symbol, and the second one was handled all the same.
C13_Witness ==
    /\ lpc = "sleep" /\ cycles > 0
    /\ Len(snapshot) = 2
    /\ snapshot[1] \in raised
    /\ snapshot[2] \in handled

\* C14: a snapshot returned by get_all_positions is a point-in-time copy: while the
\* Stop-Loss Monitor holds one, no field of the position in it changes.
C14_SnapshotIsPointInTime ==
    [][(mref # NoPosition /\ mref' = mref) => heap'[mref] = heap[mref]]_vars

\* create_position of execute_buy runs in this step.
CreateStep == opc = "create" /\ opc' = "stop_loss"

\* C15: after create_position the store holds the fresh record for the symbol:
\* remaining_quantity = initial_quantity = the given quantity, no rung flag, no
\* stop-loss move, no TP order reference, whether or not the symbol had a position.
C15_CreateStoresFreshRecord ==
    [][CreateStep =>
          /\ active_positions' # NoPosition
          /\ LET position == heap'[active_positions'] IN
             /\ position.initial_quantity = oqty
             /\ position.remaining_quantity = oqty
             /\ position.entry_price = oprice
             /\ position.side = oside
             /\ position.tp_hit = {}
             /\ position.tp_orders = {}
             /\ position.stop_loss_price = NoPrice
             /\ ~position.stop_loss_moved_to_entry
    ]_vars

\* C15's case: the symbol had an open position with rung flags and a moved stop (the
\* reconciler still holds it) and create_position has just stored a new one over it.
C15_Witness ==
    /\ opc = "stop_loss"
    /\ rref # NoPosition /\ rref # active_positions
    /\ heap[rref].tp_hit # {}
    /\ heap[rref].stop_loss_moved_to_entry
    /\ active_positions = oref

\* C16: a second call of move_stop_loss_to_entry for the same open position changes
\* no field of the position and returns the marker again, not an error.
C16_MoveIdempotent ==
    [][(move_calls >= 1 /\ move_calls' = move_calls + 1) =>
          /\ heap' = heap
          /\ move_result' = "MONITORED"
          /\ heap[active_positions].stop_loss_moved_to_entry
          /\ heap[active_positions].stop_loss_price = heap[active_positions].entry_price
    ]_vars

\* C16's case: the move has been called twice on a position whose stop was at its
\* initial level before the first call and whose rungs were partly reconciled.
C16_Witness ==
    /\ move_calls = 2
    /\ heap[active_positions].stop_loss_moved_to_entry
    /\ heap[active_positions].tp_hit # {}

\* The handler is past execute_signal's validation gate.
PastGate == wpc \notin {"none", "received", "parsed"}

\* The store holds nothing and no position dict was ever created.
NoPositionTouched ==
    /\ active_positions = NoPosition
    /\ allocated = 0
    /\ heap = [o \in Objects |-> Blank]

\* The spellings of BUY and SELL among the sides in use.
BuyOrSellSpellings == {"BUY", "buy", "SELL", "sell", "Sell"}

\* C17: a signal whose side is not BUY or SELL, whatever the case of its letters, is
\* rejected at execute_signal's validation gate: the gate answers False, the result
\* is a failure (None), no Gateway call is made and no position is created or changed.
C17_InvalidSideRejected ==
    (PastGate /\ signal_data.signal \notin BuyOrSellSpellings)
        => /\ gate = "rejected"
           /\ result = "None"
           /\ gateway_calls = {}
           /\ NoPositionTouched

\* A signal with every condition met but the side HOLD was rejected and recorded.
C17_Witness ==
    /\ wpc = "done"
    /\ signal_data.signal = "HOLD"
    /\ signal_data.strategy = "true"
    /\ gate = "rejected"
    /\ ~audit[1].executed

\* No symbol can be resolved from the payload: no `symbol` field, no `ticker` field
\* and no SYMBOL key in the message.
NoSymbol ==
    /\ payload.symbol = Absent
    /\ payload.ticker = Absent
    /\ payload.SYMBOL = Absent

\* C18: a payload, structured or pipe-delimited, from which no symbol can be resolved
\* is rejected as invalid: no Gateway call of any kind is made for it, and the audit
\* log receives a record with executed = false and an error that is not None.
C18_NoSymbolRejected ==
    (NoSymbol /\ wpc \notin {"none", "received"})
        => /\ gateway_calls = {}
           /\ wpc = "done" => /\ Len(audit) = 1
                              /\ ~audit[1].executed
                              /\ audit[1].error # "None"

\* The payload is structured (both `symbol` and `signal` are fields of the JSON body)
\* and its side is BUY or SELL.
StructuredWithSide ==
    /\ payload.content = "json"
    /\ payload.symbol # Absent
    /\ payload.signal \in BuyOrSellSpellings

OrderCalls == {"place_market_buy", "place_market_sell"}

\* C19: a signal is executed only if all_conditions_met is true; a structured payload
\* without the field passes validation, both when it has no `strategy` object and when
\* `strategy` is there without all_conditions_met; a payload with all_conditions_met
\* false is rejected without any order.
C19_ConditionsGate ==
    PastGate
        => /\ (gateway_calls \cap OrderCalls # {} \/ result = "order")
                 => signal_data.strategy = "true"
           /\ (StructuredWithSide /\ payload.strategy \in {Absent, "empty"})
                 => gate = "passed"
           /\ (StructuredWithSide /\ payload.strategy = "false")
                 => /\ gate = "rejected"
                    /\ gateway_calls \cap OrderCalls = {}

\* C20: when the computed order notional of a BUY is zero or negative, the signal
\* fails before any order: no entry order reaches the Gateway, no position is created
\* (and with it no TP order placed), and the result is a failure.
C20_NoOrderOnInvalidSize ==
    (upper(signal_data.signal) = "BUY" /\ position_size <= 0)
        => /\ "place_market_buy" \notin gateway_calls
           /\ NoPositionTouched
           /\ opc = "idle"
           /\ result # "order"
           /\ wpc = "done" => ~audit[1].executed

\* A validated BUY was sized from a zero balance, or without a fixed size, and
\* failed.
C20_Witness ==
    /\ wpc = "done"
    /\ gate = "passed"
    /\ upper(signal_data.signal) = "BUY"
    /\ "get_ticker_price" \in gateway_calls
    /\ (config.USE_PERCENTAGE => "get_account_info" \in gateway_calls)
    /\ position_size = 0
    /\ result = "None"
    /\ ~audit[1].executed

\* C30: both background loops shut down gracefully: once shutdown has been asked for,
\* a loop starts no new cycle, and its thread ends only between cycles, with the
\* cycle in flight finished.
C30_GracefulShutdown ==
    [][/\ (shutdown /\ lpc = "sleep") => lpc' = "sleep"
       /\ (alive /\ ~alive') => (lpc = "sleep" /\ todo = <<>>)
    ]_vars

\* The stored records are arrivals that follow one another, the last of them the
\* latest arrival.
MostRecentInOrder ==
    /\ \A i \in 1..(Len(audit) - 1) : audit[i + 1].seq = audit[i].seq + 1
    /\ audit # <<>> => audit[Len(audit)].seq = added

\* C28: the audit log never holds more than max_signals records; the records kept
\* are the most recent ones, in arrival order; total_signals counts every add_signal.
C28_LogBounded ==
    /\ Len(audit) <= MaxSignals
    /\ MostRecentInOrder
    /\ total_signals = added

\* More signals were recorded than the log holds, and the log is full.
C28_Witness ==
    /\ added > MaxSignals
    /\ Len(audit) = MaxSignals
    /\ audit[1].seq = added - MaxSignals + 1

\* No record is older than the retention window.
Fresh(log) == \A i \in 1..Len(log) : log[i].timestamp >= now - RetentionWindow

\* C29: right after any add_signal, get_recent_signals or get_status call no stored
\* record is older than now minus the retention window, and get_recent_signals
\* returns no such record.
C29_PurgedOnEveryAccess ==
    /\ last_call \in {"add_signal", "get_recent_signals", "get_status"} => Fresh(audit)
    /\ last_call = "get_recent_signals" => Fresh(returned)

\* The quantity the polled status response reports as executed, in the venue's field.
ReportedExecuted ==
    IF exchange_name = "mexc" THEN filled_order.executedQty ELSE filled_order.filled_qty

\* The entry order's status was polled and reported nothing executed.
ZeroFill == filled_order # NoResponse /\ ReportedExecuted = 0

\* The signal in hand is a BUY / a SELL.
BuySignal == signal_data.signal \in {"BUY", "buy"}
SellSignal == signal_data.signal \in {"SELL", "sell", "Sell"}

\* C21: when the status poll of the entry order reports zero executed quantity, no
\* position record is created, no stop-loss is set and no TP order is placed: the
\* Position Store stays as it was and execute_buy goes no further.
C21_ZeroFillCreatesNothing ==
    ZeroFill => (NoPositionTouched /\ opc = "idle")

\* A BUY whose entry was placed and reported with nothing executed has been answered.
C21_Witness ==
    /\ wpc = "done"
    /\ BuySignal
    /\ "place_market_buy" \in gateway_calls
    /\ ZeroFill

\* C22: a signal whose entry order was placed and executed nothing is surfaced as a
\* failure: it is not acknowledged with status success and not recorded in the audit
\* log with executed = true.
C22_ZeroFillSurfaced ==
    (ZeroFill /\ wpc = "done")
        => /\ ack # <<"success">>
           /\ \A i \in 1..Len(audit) : ~audit[i].executed

\* Every place_order of the TP ladder raised: the ladder was attempted (the position
\* exists, execute_buy is through) on a venue whose client rejects the call.
TpPlacementRaised == allocated > 0 /\ opc = "idle" /\ ~LimitOrderAccepted

\* A Gateway call other than the existing-order check raised while the signal was
\* handled.
GateRaised == gates_raised # {} \/ TpPlacementRaised

\* C23: when a Gateway call made for a BUY signal raises (price fetch, balance
\* lookup, entry placement, status poll or a TP limit order), execute_buy returns a
\* failure: success is never reported for such a signal.
C23_RaisedGateFails ==
    (BuySignal /\ GateRaised /\ wpc \in {"respond", "done"}) => result # "order"

\* C24: whenever execute_buy reports success for an entry that filled, the symbol's
\* position has its stop-loss price set and carries the order references of all five
\* rungs.
C24_SuccessMeansFullLadder ==
    (BuySignal /\ result = "order" /\ filled_order # NoResponse /\ ReportedExecuted > 0)
        => /\ Stored
           /\ StoredPosition.stop_loss_price # NoPrice
           /\ StoredPosition.tp_orders = Rungs

\* C25: a SELL signal leaves the Position Store as it was, sets no stop-loss and
\* places no TP order; it places at most one market sell, of a positive quantity not
\* above the available holdings, and none when the holdings are zero or negative.
C25_SellOpensNothing ==
    SellSignal
        => /\ NoPositionTouched
           /\ opc = "idle"
           /\ "place_market_buy" \notin gateway_calls
           /\ Len(sell_orders) <= 1
           /\ \A i \in 1..Len(sell_orders) :
                 sell_orders[i] > 0 /\ sell_orders[i] <= sell_available
           /\ sell_available <= 0
                 => (sell_orders = <<>> /\ "place_market_sell" \notin gateway_calls)

\* A SELL was executed for part of the holdings.
C25_Witness ==
    /\ wpc = "done"
    /\ SellSignal
    /\ result = "order"
    /\ Len(sell_orders) = 1
    /\ sell_orders[1] < sell_available

\* The average fill price the polled response reports: cumulative quote amount over
\* executed quantity, or the venue's average-fill-price field.
AverageFillPrice ==
    IF exchange_name = "mexc"
    THEN filled_order.cummulativeQuoteQty \div filled_order.executedQty
    ELSE filled_order.filled_avg_price

\* C26: the entry_price stored on a created position is the average fill price the
\* order-status response reports, not the ticker price and not an order price field
\* that differs from it.
C26_EntryPriceIsAverageFill ==
    (Stored /\ filled_order # NoResponse)
        => StoredPosition.entry_price = AverageFillPrice

\* C27: every webhook request ends with exactly one acknowledgment, whose status is
\* success, error or received, whatever parsing, the executor and the execution do.
C27_EveryRequestAcknowledged ==
    /\ [](/\ Len(ack) <= 1
          /\ \A i \in 1..Len(ack) : ack[i] \in {"success", "error", "received"}
          /\ wpc = "done" => Len(ack) = 1)
    /\ <>(wpc = "done")

\* A request whose handling raised was answered with an error, nothing recorded.
C27_Witness ==
    /\ wpc = "done"
    /\ ack = <<"error">>
    /\ audit = <<>>

\* ------------------------------------------------- the planner, called directly
\* The three planner functions of TPSLManager are pure: they are followed here on
\* arguments of either sign, prices in tenths of the quote unit and quantities in
\* hundredths of the base unit, so that every percentage in use is a whole number.
PlannerPrices == {0 - 1000, 1000, 500000}
PlannerQuantities == {0 - 10000, 500, 10000}

PlannerArgs ==
    [entry_price : PlannerPrices, side : Sides, tp_level : Rungs,
     initial_quantity : PlannerQuantities, remaining_quantity : PlannerQuantities]

notExtraVars == <<coreVars, loopVars, moveVars, signalVars, logVars, shutdownVars>>
notPlannerVars == <<notExtraVars, createVars, restartVars>>

InitPlanner ==
    /\ InitCore /\ LoopIdle /\ MoveIdle /\ SignalIdle /\ ShutdownIdle
    /\ planner_call = "none"
    /\ planner_args \in PlannerArgs
    /\ planner_result = 0
    /\ planner_error = FALSE
    /\ CreateIdle /\ RestartIdle

\* calculate_tp_price(entry_price, tp_level, side): no argument is checked, the
\* product is returned.
Planner_CalculateTpPrice ==
    /\ planner_call' = "calculate_tp_price"
    /\ planner_result' = calculate_tp_price(planner_args.entry_price, planner_args.tp_level,
                                            planner_args.side)
    /\ planner_error' = FALSE
    /\ UNCHANGED <<planner_args, notPlannerVars>>

\* calculate_sl_price(entry_price, side)
Planner_CalculateSlPrice ==
    /\ planner_call' = "calculate_sl_price"
    /\ planner_result' = calculate_sl_price(planner_args.entry_price, planner_args.side)
    /\ planner_error' = FALSE
    /\ UNCHANGED <<planner_args, notPlannerVars>>

\* calculate_close_quantity(initial_quantity, tp_level, remaining_quantity)
Planner_CalculateCloseQuantity ==
    /\ planner_call' = "calculate_close_quantity"
    /\ planner_result' = calculate_close_quantity(planner_args.initial_quantity,
                                                  planner_args.tp_level,
                                                  planner_args.remaining_quantity)
    /\ planner_error' = FALSE
    /\ UNCHANGED <<planner_args, notPlannerVars>>

\* A position is opened at the arguments' entry price, side and quantity: the entry
\* in hand of execute_buy, followed by create_position and place_initial_stop_loss.
Planner_Entry ==
    /\ opc = "idle"
    /\ allocated < MaxPositions
    /\ oqty' = planner_args.initial_quantity
    /\ oprice' = planner_args.entry_price
    /\ oside' = planner_args.side
    /\ opc' = "create"
    /\ UNCHANGED <<oref, objVars, envVars, active_positions, reconVars, monVars>>

NextPlanner ==
    \/ Planner_CalculateTpPrice
    \/ Planner_CalculateSlPrice
    \/ Planner_CalculateCloseQuantity
    \/ Planner_Entry
    \/ ExecuteBuy_CreatePosition
    \/ ExecuteBuy_InitialStopLoss

SpecPlanner == InitPlanner /\ [][NextPlanner]_vars

\* C31: calculate_close_quantity returns 10%, 15%, 35% and 35% of the initial
\* quantity for rungs 1 to 4, whatever remains, and 50% of the remaining quantity
\* for rung 5, whatever the initial quantity was.
C31_CloseQuantityLaw ==
    planner_call = "calculate_close_quantity"
        => LET level == planner_args.tp_level
               percent == CASE level = 1 -> 10 [] level = 2 -> 15
                            [] level = 3 -> 35 [] level = 4 -> 35 [] OTHER -> 50
           IN IF level = 5
              THEN planner_result * 100 = planner_args.remaining_quantity * percent
              ELSE planner_result * 100 = planner_args.initial_quantity * percent

\* Rung 5 of a position of 100 with exactly 5 remaining closes 2.5 (in hundredths).
C31_Witness ==
    /\ planner_call = "calculate_close_quantity"
    /\ planner_args.tp_level = 5
    /\ planner_args.initial_quantity = 10000
    /\ planner_args.remaining_quantity = 500
    /\ planner_result = 250

\* The rung percents from entry, in tenths of a percent: 1, 2, 5, 6.5 and 8.
RungPercent10(level) ==
    CASE level = 1 -> 10 [] level = 2 -> 20 [] level = 3 -> 50 [] level = 4 -> 65
      [] OTHER -> 80

\* C32: the take-profit price of a rung is entry x (1 + pct/100) for a long and
\* entry x (1 - pct/100) for a short; the stop-loss price is entry x (1 - sl/100) for
\* a long and entry x (1 + sl/100) for a short; and the stop-loss price stored on a
\* newly opened position is that planner value.
C32_PriceLaw ==
    /\ planner_call = "calculate_tp_price"
          => planner_result * 1000 =
                planner_args.entry_price *
                   (IF planner_args.side = "BUY"
                    THEN 1000 + RungPercent10(planner_args.tp_level)
                    ELSE 1000 - RungPercent10(planner_args.tp_level))
    /\ planner_call = "calculate_sl_price"
          => planner_result * 100 =
                planner_args.entry_price *
                   (IF planner_args.side = "BUY" THEN 100 - StopLossPercent
                                                 ELSE 100 + StopLossPercent)
    /\ opc = "take_profit"
          => heap[oref].stop_loss_price * 100 =
                heap[oref].entry_price *
                   (IF heap[oref].side = "BUY" THEN 100 - StopLossPercent
                                               ELSE 100 + StopLossPercent)

\* A long opened at 50000 carries the stop 47500 (in tenths).
C32_Witness ==
    /\ opc = "take_profit"
    /\ heap[oref].side = "BUY"
    /\ heap[oref].entry_price = 500000
    /\ heap[oref].stop_loss_price = 475000

\* Whether a call of the planner function was made with a negative price or quantity
\* among the arguments it takes.
NegativeArgument ==
    \/ /\ planner_call \in {"calculate_tp_price", "calculate_sl_price"}
       /\ planner_args.entry_price < 0
    \/ /\ planner_call = "calculate_close_quantity"
       /\ \/ planner_args.initial_quantity < 0
          \/ planner_args.remaining_quantity < 0

\* C34: a planner function called with a negative price or a negative quantity
\* raises InvalidParameter instead of returning a computed value.
C34_NegativeInputRejected ==
    NegativeArgument => planner_error

\* The configured percentage, held to the range from 20 to 100.
ClampedPercent ==
    CASE config.POSITION_SIZE_PERCENT < 20 -> 20
      [] config.POSITION_SIZE_PERCENT > 100 -> 100
      [] OTHER -> config.POSITION_SIZE_PERCENT

MonitorRemoves ==
    /\ mpc = "close"
    /\ active_positions # NoPosition
    /\ active_positions' = NoPosition

\* C35: whenever the Stop-Loss Monitor removes a long position from the store, the
\* quantity of the liquidation order it sent equals the remaining_quantity the
\* position has at that moment, however the reconciler's steps fall in between.
C35_LiquidatesWhatIsHeld ==
    [][(MonitorRemoves /\ heap[active_positions].side = "BUY")
          => last_liq.quantity = heap[active_positions].remaining_quantity]_vars

\* C36: a position with any of rungs 2 to 5 marked filled has rung 1 marked filled
\* and stop_loss_moved_to_entry set: no later rung is recorded ahead of the
\* breakeven move.
C36_LaterRungAfterBreakeven ==
    \A o \in Objects :
        (heap[o].tp_hit \cap (2..5) # {})
            => (1 \in heap[o].tp_hit /\ heap[o].stop_loss_moved_to_entry)

\* A step of the reconciler thread.
ReconcilerStep == reconVars' # reconVars

\* The reconciler is at work on a position P that is no longer the one stored under
\* the symbol: the orchestrator has stored a new position P' over it.
HoldsReplaced ==
    /\ rref # NoPosition
    /\ active_positions # NoPosition
    /\ rref # active_positions

\* C37: a step the reconciler takes on account of a position P that has been
\* replaced in the store changes no field of the position P' now stored: not its
\* rung flags, remaining_quantity, stop_loss_price or stop_loss_moved_to_entry.
C37_FillMutatesOnlyItsPosition ==
    [][(ReconcilerStep /\ HoldsReplaced /\ active_positions' = active_positions)
          => heap'[active_positions] = heap[active_positions]]_vars

\* The base quantity the venue has sold through a rung's limit order of position o.
SoldByRung(o, tp_level) ==
    IF OrderFilled(o, tp_level) THEN placed_quantity(heap[o].initial_quantity, tp_level)
                                ELSE 0

\* The base quantity sold on behalf of position o: its TP limit orders that filled
\* and the forced-liquidation order the venue accepted.
SoldOnBehalf(o) ==
    SoldByRung(o, 1) + SoldByRung(o, 2) + SoldByRung(o, 3) + SoldByRung(o, 4)
        + SoldByRung(o, 5)
        + (IF last_liq.position = o /\ last_liq.accepted THEN last_liq.quantity ELSE 0)

\* C38: the total base quantity sold on behalf of a position (filled TP limit orders
\* plus the forced liquidation) never exceeds its initial_quantity.
C38_NeverOversold ==
    \A o \in Objects :
        heap[o] # Blank => SoldOnBehalf(o) <= heap[o].initial_quantity

\* ------------------------------------- the executor, created by the first requests
\* Requests arrive while the handler has no executor.  Flask's server handles each
\* request in a thread of its own, and _get_or_create_executor takes no lock.
notCreateVars == <<notExtraVars, plannerVars, restartVars>>

InitCreate ==
    /\ InitCore /\ LoopIdle /\ MoveIdle /\ SignalIdle /\ ShutdownIdle
    /\ PlannerIdle /\ RestartIdle
    /\ handler_executor = NoExecutor /\ executors_built = 0
    /\ req_pc = [r \in Requests |-> "start"]
    /\ req_executor = [r \in Requests |-> NoExecutor]

\* `if self.executor: return self.executor`
GetOrCreate_Cached(r) ==
    /\ req_pc[r] = "start"
    /\ handler_executor # NoExecutor
    /\ req_executor' = [req_executor EXCEPT ![r] = handler_executor]
    /\ req_pc' = [req_pc EXCEPT ![r] = "done"]
    /\ UNCHANGED <<handler_executor, executors_built, notCreateVars>>

\* self.executor is None: the request goes on to read the configuration and to
\* create and validate the exchange clients (file and network calls).
GetOrCreate_Check(r) ==
    /\ req_pc[r] = "start"
    /\ handler_executor = NoExecutor
    /\ req_pc' = [req_pc EXCEPT ![r] = "create"]
    /\ UNCHANGED <<handler_executor, executors_built, req_executor, notCreateVars>>

\* No configuration file, no exchange with valid credentials, or an exception:
\* None is returned and nothing is cached.
GetOrCreate_ReturnsNone(r) ==
    /\ req_pc[r] = "create"
    /\ req_pc' = [req_pc EXCEPT ![r] = "done"]
    /\ UNCHANGED <<handler_executor, executors_built, req_executor, notCreateVars>>

\* executor = TradingExecutor(primary_exchange, executor_config, primary_exchange_name):
\* a Position Store, a Stop-Loss Monitor thread and a reconciler thread of its own.
GetOrCreate_Construct(r) ==
    /\ req_pc[r] = "create"
    /\ executors_built' = executors_built + 1
    /\ req_executor' = [req_executor EXCEPT ![r] = executors_built + 1]
    /\ req_pc' = [req_pc EXCEPT ![r] = "constructed"]
    /\ UNCHANGED <<handler_executor, notCreateVars>>

\* self.executor = executor; return executor
GetOrCreate_Cache(r) ==
    /\ req_pc[r] = "constructed"
    /\ handler_executor' = req_executor[r]
    /\ req_pc' = [req_pc EXCEPT ![r] = "done"]
    /\ UNCHANGED <<executors_built, req_executor, notCreateVars>>

NextCreate ==
    \E r \in Requests :
        \/ GetOrCreate_Cached(r)
        \/ GetOrCreate_Check(r)
        \/ GetOrCreate_ReturnsNone(r)
        \/ GetOrCreate_Construct(r)
        \/ GetOrCreate_Cache(r)

SpecCreate == InitCreate /\ [][NextCreate]_vars

MaxCalls == 3

notRestartVars == <<coreVars, loopVars, moveVars, signalVars, logVars, shutdown,
                    plannerVars, createVars>>

\* StopLossMonitor.__init__: monitoring_active = True, monitor_thread = None.
InitRestart ==
    /\ InitCore /\ LoopIdle /\ MoveIdle /\ SignalIdle /\ ShutdownIdle
    /\ PlannerIdle /\ CreateIdle
    /\ monitor_thread = "None" /\ mt_pc = "while"
    /\ monitor_calls = <<>> /\ calls_over = FALSE

\* start_monitoring: `if self.monitor_thread and self.monitor_thread.is_alive(): return`
StartMonitoring_Returns ==
    /\ ~calls_over /\ Len(monitor_calls) < MaxCalls
    /\ monitor_thread = "alive"
    /\ monitor_calls' = Append(monitor_calls, "start_monitoring")
    /\ UNCHANGED <<monitor_thread, mt_pc, calls_over, monitoring_active, notRestartVars>>

\* start_monitoring with no live thread: the flag is set and a new thread started.
StartMonitoring_Starts ==
    /\ ~calls_over /\ Len(monitor_calls) < MaxCalls
    /\ monitor_thread # "alive"
    /\ monitoring_active' = TRUE
    /\ monitor_thread' = "alive"
    /\ mt_pc' = "while"
    /\ monitor_calls' = Append(monitor_calls, "start_monitoring")
    /\ UNCHANGED <<calls_over, notRestartVars>>

\* stop_monitoring: self.monitoring_active = False
StopMonitoring_Call ==
    /\ ~calls_over /\ Len(monitor_calls) < MaxCalls
    /\ monitoring_active' = FALSE
    /\ monitor_calls' = Append(monitor_calls, "stop_monitoring")
    /\ UNCHANGED <<monitor_thread, mt_pc, calls_over, notRestartVars>>

\* The caller makes no further call.
Caller_Done ==
    /\ ~calls_over
    /\ calls_over' = TRUE
    /\ UNCHANGED <<monitor_thread, mt_pc, monitor_calls, monitoring_active, notRestartVars>>

\* _monitor_loop: `while self.monitoring_active` holds, the cycle begins.
MonitorThread_Enters ==
    /\ monitor_thread = "alive" /\ mt_pc = "while"
    /\ monitoring_active
    /\ mt_pc' = "body"
    /\ UNCHANGED <<monitor_thread, monitor_calls, calls_over, monitoring_active,
                   notRestartVars>>

\* `while self.monitoring_active` fails: the thread's function returns.
MonitorThread_Returns ==
    /\ monitor_thread = "alive" /\ mt_pc = "while"
    /\ ~monitoring_active
    /\ monitor_thread' = "dead"
    /\ UNCHANGED <<mt_pc, monitor_calls, calls_over, monitoring_active, notRestartVars>>

\* The cycle's checks are made (or raise and are logged); time.sleep follows.
MonitorThread_Cycle ==
    /\ monitor_thread = "alive" /\ mt_pc = "body"
    /\ mt_pc' = "sleep"
    /\ UNCHANGED <<monitor_thread, monitor_calls, calls_over, monitoring_active,
                   notRestartVars>>

\* The sleep is over.
MonitorThread_Wakes ==
    /\ monitor_thread = "alive" /\ mt_pc = "sleep"
    /\ mt_pc' = "while"
    /\ UNCHANGED <<monitor_thread, monitor_calls, calls_over, monitoring_active,
                   notRestartVars>>

MonitorThread ==
    \/ MonitorThread_Enters
    \/ MonitorThread_Returns
    \/ MonitorThread_Cycle
    \/ MonitorThread_Wakes

NextRestart ==
    \/ StartMonitoring_Returns
    \/ StartMonitoring_Starts
    \/ StopMonitoring_Call
    \/ Caller_Done
    \/ MonitorThread

\* The monitor thread is scheduled as long as it has a step to take.
SpecRestart == InitRestart /\ [][NextRestart]_vars /\ WF_vars(MonitorThread)

\* The calls are over and the last one was start_monitoring.
EndsWithStart ==
    /\ calls_over
    /\ monitor_calls # <<>>
    /\ monitor_calls[Len(monitor_calls)] = "start_monitoring"

\* C40: once a sequence of start_monitoring and stop_monitoring calls has ended with
\* start_monitoring, the Stop-Loss Monitor loop is running and goes on executing
\* cycles, also when the previous thread was still alive at the time of the call.
C40_RestartResumesMonitoring ==
    [](EndsWithStart => <>(monitor_thread = "alive" /\ mt_pc = "body"))

====
